---- MODULE Spec2Model ----
(***************************************************************************)
(* Risk-and-execution governor of the ETH trading loop:                    *)
(*   RiskManager and FrequencyGuard (src/src/risk.py) and                  *)
(*   TradeExecution (src/src/trade_execution.py).                          *)
(* Time is the value time.time() returns, in whole seconds.                *)
(***************************************************************************)
EXTENDS Integers, Sequences, FiniteSets, TLC

VARIABLES
    now,                 \* the wall clock, time.time()
    tz,                  \* the host's UTC offset in seconds (what time.mktime applies)
    pause_after_losses,  \* settings.pause_consecutive_losses, passed to on_trade_closed
    pause_duration_sec,  \* settings.pause_duration_hours * 3600, passed to on_trade_closed
    rmState,             \* RiskManager.state, the in-memory dict
    rmFile,              \* the content of the file at RiskManager.state_path
    rmLast,              \* the last RiskManager call since the last sleep: its arguments and result
    closes,              \* history: the on_trade_closed calls that returned
    consulted,           \* history: UTC day of the last call that ran ensure_day_initialized
    max_trades_per_hour, \* FrequencyGuard.max_trades_per_hour
    cooldown_seconds,    \* FrequencyGuard.cooldown_seconds
    last_trades,         \* FrequencyGuard.last_trades
    last_close_time,     \* FrequencyGuard.last_close_time: <<>> for None, <<t>> for t
    gLast,               \* the last FrequencyGuard call since the last sleep and its result
    opens,               \* history: the time of every record_open call
    closedAt,            \* history: the time of the last record_close call, <<>> if none
    advised,             \* history: every record_open so far followed an allow_new_trade() = true
    teBuilt,             \* "new" before TradeExecution.__init__ runs, then "ready" or "ValueError"
    teCfg,               \* the arguments of TradeExecution.__init__, the instance's fields once ready
    teArgs,              \* the arguments the TradeExecution call is made with
    teResult,            \* <<the dict the TradeExecution call returned>>, <<>> before the call
    tsLast,              \* the last check_time_stop call: its arguments and result, <<>> if none
    settings,            \* Settings: daily_loss_limit_pct and shutdown_duration_hours
    starting_equity,     \* pnl.get_stats().get("starting_equity", 0)
    lossCheck,           \* the last daily-loss check of the loop: day_pnl and whether it shut down
    max_candles_5m,      \* PositionTracker.max_candles_5m
    position_entry_time, \* PositionTracker.position_entry_time: <<>> for None, <<t>> for t
    position_entry_candle_count, \* PositionTracker.position_entry_candle_count
    position_side,       \* PositionTracker.position_side: <<>> for None
    position_entry_price,\* PositionTracker.position_entry_price: <<>> for None
    ptLast,              \* the last PositionTracker call, its arguments and result
    ptOpened,            \* history: <<the arguments of the last on_position_opened>>, <<>> once closed
    ptCandles,           \* history: on_new_candle calls since the last open or close
    ptClosed,            \* history: <<the candle count of the position last closed>>
    exPosition,          \* ex.positions(): "flat", or the side of the open position
    placed,              \* history: <<the last market order that opened a position>>
    exClosed,            \* history: <<the last close of a position and the calls that reported it>>
    rate_limit_backoff,  \* rate_limit_backoff of run_live_async, in seconds
    fetched              \* history: how the fetches of the last iteration ended

riskVars == <<now, tz, pause_after_losses, pause_duration_sec, rmState, rmFile,
              rmLast, closes, consulted>>

guardVars == <<max_trades_per_hour, cooldown_seconds, last_trades, last_close_time,
               gLast, opens, closedAt, advised>>

execVars == <<teBuilt, teCfg, teArgs, teResult>>

stopVars == <<tsLast>>

loopVars == <<settings, starting_equity, lossCheck>>

trackerVars == <<max_candles_5m, position_entry_time, position_entry_candle_count,
                 position_side, position_entry_price, ptLast, ptOpened, ptCandles,
                 ptClosed>>

runVars == <<exPosition, placed, exClosed, rate_limit_backoff, fetched>>

\* what a RiskManager call leaves alone, what a FrequencyGuard call leaves alone,
\* what a TradeExecution call leaves alone

notRisk == <<guardVars, execVars, stopVars, loopVars, trackerVars, runVars>>
notGuard == <<tz, pause_after_losses, pause_duration_sec, rmState, rmFile, rmLast,
              closes, consulted, execVars, stopVars, loopVars, trackerVars, runVars>>
notExec == <<riskVars, guardVars, stopVars, loopVars, trackerVars, runVars>>
notStop == <<riskVars, guardVars, execVars, loopVars, trackerVars, runVars>>
notLoop == <<tz, pause_after_losses, pause_duration_sec, closes, guardVars, execVars,
             stopVars, trackerVars, runVars>>
notTracker == <<riskVars, guardVars, execVars, stopVars, loopVars, runVars>>

----------------------------------------------------------------------------
(* Bounds of the model *)

\* hours of wall-clock time a behaviour covers
MaxHours == 12
\* on_trade_closed calls a behaviour makes
MaxCloses == 3
\* the first UTC day of a behaviour (days since the epoch)
StartDay == 3

\* minutes of wall-clock time a behaviour of the guard covers
MaxGuardMinutes == 70
\* record_open calls a behaviour makes
MaxOpens == 3
\* candles handed to calculate_entry_stop_target
MaxCandles == 4
\* the largest candles_since_entry handed to check_time_stop
MaxSinceEntry == 9
\* on_new_candle calls between two opens or closes of the tracker
MaxTrackerCandles == 4
\* the minutes of run_live_async that are followed
MaxRunMinutes == 30

(* Program constants *)

\* rate_limit_backoff = 60, and min(rate_limit_backoff * 2, 600)
BackoffStart == 60
BackoffCap == 600

\* bits of the significand of a Python float
MantissaBits == 53
\* bits of one limb of a natural number
LimbBits == 15
Limb == 2 ^ LimbBits
DaySeconds == 86400
HourSeconds == 3600
MinuteSeconds == 60

StartTime == StartDay * DaySeconds + 18 * HourSeconds
EndTime == StartTime + MaxHours * HourSeconds

\* the sleeps between two calls, in seconds
RiskSteps == {6 * HourSeconds, 12 * HourSeconds}
\* UTC offsets of the host: New York, UTC, Berlin
TzOffsets == {-5 * HourSeconds, 0, HourSeconds}
\* realized P&L of a closed trade
Pnls == {-2, 0, 1}
\* settings.pause_consecutive_losses (ge=1)
PauseAfter == {1, 2, 3}
\* settings.pause_duration_hours (ge=1), settings.shutdown_duration_hours (ge=1)
PauseHours == {12}
ShutdownHours == {6}

----------------------------------------------------------------------------
(* Numbers: a price or a ratio is a Python float, an IEEE 754 binary64 value.
   A float is <<s, m, e>> and stands for s * m * 2^e, where s is 1 or -1 and
   m is a natural number of exactly MantissaBits bits; zero is <<1, <<>>, 0>>.
   Every operation computes the exact result and rounds it to the nearest
   float, ties to even.  nan, which 0 / 0 gives, is <<0, <<>>, 0>>.  Subnormals
   and infinities are out of the range of the prices here.  A natural number of any size is a sequence of limbs
   base Limb, least significant first, without leading zeros. *)

Abs(x) == IF x < 0 THEN -x ELSE x

\* i-th limb of a, or 0 above the top
LimbAt(a, i) == IF i <= Len(a) THEN a[i] ELSE 0

RECURSIVE BTrim(_)
BTrim(a) ==
    IF a = <<>> \/ a[Len(a)] # 0 THEN a ELSE BTrim(SubSeq(a, 1, Len(a) - 1))

RECURSIVE BNat(_)
\* the limbs of the integer n >= 0
BNat(n) == IF n = 0 THEN <<>> ELSE <<n % Limb>> \o BNat(n \div Limb)

RECURSIVE BAddFrom(_, _, _, _)
BAddFrom(a, b, i, carry) ==
    IF i > Len(a) /\ i > Len(b)
    THEN (IF carry = 0 THEN <<>> ELSE <<carry>>)
    ELSE LET s == LimbAt(a, i) + LimbAt(b, i) + carry
         IN <<s % Limb>> \o BAddFrom(a, b, i + 1, s \div Limb)

BAdd(a, b) == BAddFrom(a, b, 1, 0)

RECURSIVE BSubFrom(_, _, _, _)
BSubFrom(a, b, i, borrow) ==
    IF i > Len(a) THEN <<>>
    ELSE LET d == a[i] - LimbAt(b, i) - borrow
         IN IF d < 0 THEN <<d + Limb>> \o BSubFrom(a, b, i + 1, 1)
            ELSE <<d>> \o BSubFrom(a, b, i + 1, 0)

\* a - b for a >= b
BSub(a, b) == BTrim(BSubFrom(a, b, 1, 0))

RECURSIVE BCmpFrom(_, _, _)
BCmpFrom(a, b, i) ==
    IF i = 0 THEN 0
    ELSE IF a[i] < b[i] THEN -1
    ELSE IF a[i] > b[i] THEN 1
    ELSE BCmpFrom(a, b, i - 1)

\* -1, 0, 1 as a < b, a = b, a > b
BCmp(a, b) ==
    IF Len(a) < Len(b) THEN -1
    ELSE IF Len(a) > Len(b) THEN 1
    ELSE BCmpFrom(a, b, Len(a))

RECURSIVE BMulSmallFrom(_, _, _, _)
BMulSmallFrom(a, k, i, carry) ==
    IF i > Len(a) THEN (IF carry = 0 THEN <<>> ELSE <<carry>>)
    ELSE LET p == a[i] * k + carry
         IN <<p % Limb>> \o BMulSmallFrom(a, k, i + 1, p \div Limb)

\* a * k for 0 <= k < Limb
BMulSmall(a, k) == IF k = 0 THEN <<>> ELSE BMulSmallFrom(a, k, 1, 0)

\* a * Limb^n
BShiftLimbs(a, n) == IF a = <<>> THEN <<>> ELSE [i \in 1..n |-> 0] \o a

RECURSIVE BMulFrom(_, _, _)
BMulFrom(a, b, j) ==
    IF j > Len(b) THEN <<>>
    ELSE BAdd(BShiftLimbs(BMulSmall(a, b[j]), j - 1), BMulFrom(a, b, j + 1))

BMul(a, b) == BMulFrom(a, b, 1)

\* a * 2^k
BShl(a, k) == BShiftLimbs(BMulSmall(a, 2 ^ (k % LimbBits)), k \div LimbBits)

RECURSIVE BShrFrom(_, _, _)
BShrFrom(b, r, i) ==
    IF i > Len(b) THEN <<>>
    ELSE <<(b[i] \div 2 ^ r) + (LimbAt(b, i + 1) % 2 ^ r) * 2 ^ (LimbBits - r)>>
         \o BShrFrom(b, r, i + 1)

\* a \div 2^k
BShr(a, k) ==
    LET n == k \div LimbBits
    IN IF n >= Len(a) THEN <<>>
       ELSE BTrim(BShrFrom(SubSeq(a, n + 1, Len(a)), k % LimbBits, 1))

RECURSIVE BitsOf(_)
BitsOf(x) == IF x = 0 THEN 0 ELSE 1 + BitsOf(x \div 2)

\* the number of bits of a
BBits(a) == IF a = <<>> THEN 0 ELSE LimbBits * (Len(a) - 1) + BitsOf(a[Len(a)])

BOdd(a) == a # <<>> /\ a[1] % 2 = 1

Zero == <<1, <<>>, 0>>
NaN == <<0, <<>>, 0>>

FIsZero(x) == x = Zero
FIsNaN(x) == x = NaN

\* s * (m + a fraction of one unit, present iff sticky) * 2^e, rounded
FRound(s, m, e, sticky) ==
    LET n == BBits(m) IN
    IF n = 0 THEN Zero
    ELSE IF n <= MantissaBits
    THEN <<s, BShl(m, MantissaBits - n), e - (MantissaBits - n)>>
    ELSE LET sh == n - MantissaBits
             q == BShr(m, sh)
             rest == BSub(m, BShl(q, sh))
             c == BCmp(rest, BShl(<<1>>, sh - 1))
             up == c > 0 \/ (c = 0 /\ (sticky \/ BOdd(q)))
             q1 == IF up THEN BAdd(q, <<1>>) ELSE q
         IN IF BBits(q1) > MantissaBits
            THEN <<s, BShr(q1, 1), e + sh + 1>>
            ELSE <<s, q1, e + sh>>

\* float(n) of an integer n
Num(n) == FRound(IF n < 0 THEN -1 ELSE 1, BNat(Abs(n)), 0, FALSE)

FNeg(x) == IF FIsZero(x) THEN x ELSE <<-x[1], x[2], x[3]>>
FAbs(x) == <<1, x[2], x[3]>>

\* x + y
FAdd(x, y) ==
    IF FIsZero(x) THEN y
    ELSE IF FIsZero(y) THEN x
    ELSE LET e == IF x[3] < y[3] THEN x[3] ELSE y[3]
             a == BShl(x[2], x[3] - e)
             b == BShl(y[2], y[3] - e)
         IN IF x[1] = y[1] THEN FRound(x[1], BAdd(a, b), e, FALSE)
            ELSE IF BCmp(a, b) >= 0 THEN FRound(x[1], BSub(a, b), e, FALSE)
            ELSE FRound(y[1], BSub(b, a), e, FALSE)

\* x - y
FSub(x, y) == FAdd(x, FNeg(y))

\* x * y
FMul(x, y) == FRound(x[1] * y[1], BMul(x[2], y[2]), x[3] + y[3], FALSE)

RECURSIVE BDivFix(_, _, _, _)
\* long division, one limb: lower the estimate d of r \div b while d * b = p exceeds r
BDivFix(r, b, d, p) ==
    IF BCmp(p, r) > 0 THEN BDivFix(r, b, d - 1, BSub(p, b))
    ELSE <<d, BSub(r, p)>>

\* <<r \div b, r % b>> for r < b * Limb and the top limb of b at least Limb \div 2
BDivLimb(r, b) ==
    LET n == Len(b)
        top == LimbAt(r, n + 1) * Limb + LimbAt(r, n)
        guess == top \div b[n]
        d == IF guess >= Limb THEN Limb - 1 ELSE guess
    IN BDivFix(r, b, d, BMulSmall(b, d))

RECURSIVE BDivFraction(_, _, _)
\* the first n limbs of the fraction r / b, r < b: <<limbs, remainder>>
BDivFraction(r, b, n) ==
    IF n = 0 THEN <<<<>>, r>>
    ELSE LET d == BDivLimb(BShiftLimbs(r, 1), b)
             lower == BDivFraction(d[2], b, n - 1)
         IN <<lower[1] \o <<d[1]>>, lower[2]>>

\* limbs of the fraction a division keeps before it rounds
FractionLimbs == (MantissaBits + 2) \div LimbBits + 1

\* x / y of numpy floats, for y # 0 or x = y = 0
FDiv(x, y) ==
    IF FIsZero(x) THEN (IF FIsZero(y) THEN NaN ELSE Zero)
    ELSE LET sh == LimbBits - BitsOf(y[2][Len(y[2])])
             a == BShl(x[2], sh)
             b == BShl(y[2], sh)
             whole == IF BCmp(a, b) >= 0 THEN 1 ELSE 0
             r == IF whole = 1 THEN BSub(a, b) ELSE a
             f == BDivFraction(r, b, FractionLimbs)
         IN FRound(x[1] * y[1], BTrim(f[1] \o <<whole>>),
                   x[3] - y[3] - FractionLimbs * LimbBits, f[2] # <<>>)

\* the float a decimal literal n/d denotes, e.g. 1.0005 is Rat(10005, 10000)
Rat(n, d) == FDiv(Num(n), Num(d))

\* -1, 0, 1 as |x| < |y|, |x| = |y|, |x| > |y|
FCmpAbs(x, y) ==
    IF FIsZero(x) THEN (IF FIsZero(y) THEN 0 ELSE -1)
    ELSE IF FIsZero(y) THEN 1
    ELSE IF x[3] < y[3] THEN -1
    ELSE IF x[3] > y[3] THEN 1
    ELSE BCmp(x[2], y[2])

\* -1, 0, 1 as x < y, x = y, x > y
FCmp(x, y) ==
    IF x[1] # y[1] THEN (IF FIsZero(x) /\ FIsZero(y) THEN 0 ELSE x[1])
    ELSE x[1] * FCmpAbs(x, y)

\* x < y, x <= y: false when either is nan
FLt(x, y) == ~FIsNaN(x) /\ ~FIsNaN(y) /\ FCmp(x, y) < 0
FLe(x, y) == ~FIsNaN(x) /\ ~FIsNaN(y) /\ FCmp(x, y) <= 0

\* min(x, y), max(x, y) of Python: the first argument unless the second is strictly beyond it
FMin(x, y) == IF FLt(y, x) THEN y ELSE x
FMax(x, y) == IF FLt(x, y) THEN y ELSE x

RECURSIVE FSum(_, _)
\* the running sum acc + q[1] + q[2] + ...
FSum(q, acc) == IF q = <<>> THEN acc ELSE FSum(Tail(q), FAdd(acc, q[1]))

\* q[-k:]
LastN(q, k) == IF Len(q) <= k THEN q ELSE SubSeq(q, Len(q) - k + 1, Len(q))

----------------------------------------------------------------------------
(* The TradeExecution a behaviour without a planner holds *)

EntryModes == {"break_retest", "pullback", "limit_midpoint"}

\* no call is made
NoArguments ==
    [candles |-> <<>>, direction |-> "flat", fractal_level |-> <<>>,
     invalidation_level |-> <<>>]

\* TradeExecution(): the defaults of __init__
DefaultExecution ==
    [entry_mode |-> "break_retest", stop_atr_multiplier |-> Rat(3, 2),
     min_rr_ratio |-> Num(2), time_stop_candles |-> 8, atr_period |-> 3]

\* Settings(): the defaults of the two fields the daily-loss check reads
DefaultSettings == [daily_loss_limit_pct |-> Rat(6, 100), shutdown_duration_hours |-> 24]

\* PositionTracker(): no call made yet
NoTrackerCall == [op |-> "init", ret |-> <<>>]

----------------------------------------------------------------------------
(* dict helpers *)

Fields == {"day_start_ts", "day_pnl", "consecutive_losses", "paused_until", "shutdown_until"}

\* d.get(k, dflt)
Get(d, k, dflt) == IF k \in DOMAIN d THEN d[k] ELSE dflt

\* d[k] = v
Put(d, k, v) == [x \in (DOMAIN d) \cup {k} |-> IF x = k THEN v ELSE d[x]]

\* the dict _load returns when the file is missing or unreadable
Zeroed == [k \in Fields |-> 0]

\* the file of a first run
NoFile == [kind |-> "absent", data |-> <<>>]
\* a file json.load cannot parse
CorruptFile == [kind |-> "corrupt", data |-> <<>>]

\* RiskManager._save: the whole dict rewritten as one JSON object
save(state) == [kind |-> "json", data |-> state]

\* mutant: every construction starts from the zeroed dict
load_zeroed(file) == Zeroed

\* RiskManager._load: the parsed object, or the zeroed dict when the file is
\* absent or json.load raises
load(file) == IF file.kind = "json" THEN file.data ELSE Zeroed

\* RiskManager._midnight_utc_ts: gmtime's date at 00:00:00 handed to mktime,
\* which reads the fields as local time
midnight_utc_ts(t, offset) == (t \div DaySeconds) * DaySeconds - offset

\* the UTC calendar day of a time
UtcDay(t) == t \div DaySeconds

----------------------------------------------------------------------------
(* RiskManager methods: each maps the dict and the file to the new dict, the
   new file, the value returned and the exception raised ("none" if none) *)

Outcome(st, fl, ret, exc, reset, trig) ==
    [st |-> st, fl |-> fl, ret |-> ret, exc |-> exc, reset |-> reset, trig |-> trig]

\* mutant: the new day is stored but the old day's P&L is kept
ensure_day_initialized_keeps_pnl(st, fl, t, offset) ==
    LET now_midnight == midnight_utc_ts(t, offset) IN
    IF "day_start_ts" \notin DOMAIN st
    THEN Outcome(st, fl, 0, "KeyError", FALSE, FALSE)
    ELSE IF st["day_start_ts"] # now_midnight
    THEN LET s2 == Put(st, "day_start_ts", now_midnight)
         IN Outcome(s2, save(s2), 0, "none", TRUE, FALSE)
    ELSE Outcome(st, fl, 0, "none", FALSE, FALSE)

\* mutant: the reset is not written to the file
ensure_day_initialized_unsaved(st, fl, t, offset) ==
    LET now_midnight == midnight_utc_ts(t, offset) IN
    IF "day_start_ts" \notin DOMAIN st
    THEN Outcome(st, fl, 0, "KeyError", FALSE, FALSE)
    ELSE IF st["day_start_ts"] # now_midnight
    THEN LET s2 == Put(Put(st, "day_start_ts", now_midnight), "day_pnl", 0)
         IN Outcome(s2, fl, 0, "none", TRUE, FALSE)
    ELSE Outcome(st, fl, 0, "none", FALSE, FALSE)

\* mutant: the new day starts with a fresh loss streak as well
ensure_day_initialized_resets_streak(st, fl, t, offset) ==
    LET now_midnight == midnight_utc_ts(t, offset) IN
    IF "day_start_ts" \notin DOMAIN st
    THEN Outcome(st, fl, 0, "KeyError", FALSE, FALSE)
    ELSE IF st["day_start_ts"] # now_midnight
    THEN LET s2 == Put(Put(Put(st, "day_start_ts", now_midnight), "day_pnl", 0),
                       "consecutive_losses", 0)
         IN Outcome(s2, save(s2), 0, "none", TRUE, FALSE)
    ELSE Outcome(st, fl, 0, "none", FALSE, FALSE)

ensure_day_initialized(st, fl, t, offset) ==
    LET now_midnight == midnight_utc_ts(t, offset) IN
    IF "day_start_ts" \notin DOMAIN st
    THEN Outcome(st, fl, 0, "KeyError", FALSE, FALSE)
    ELSE IF st["day_start_ts"] # now_midnight
    THEN LET s2 == Put(Put(st, "day_start_ts", now_midnight), "day_pnl", 0)
         IN Outcome(s2, save(s2), 0, "none", TRUE, FALSE)
    ELSE Outcome(st, fl, 0, "none", FALSE, FALSE)

\* mutant: the pause still holds at its deadline
is_paused_inclusive(st, t) == t <= Get(st, "paused_until", 0)

is_paused(st, t) == t < Get(st, "paused_until", 0)

is_shutdown(st, t) == t < Get(st, "shutdown_until", 0)

\* mutant: the deadline is set in memory only
pause_for_unsaved(st, fl, t, seconds) ==
    LET s2 == Put(st, "paused_until", t + seconds)
    IN Outcome(s2, fl, 0, "none", FALSE, FALSE)

\* mutant: a deadline that lies later than the new one is kept
pause_for_keeps_later(st, fl, t, seconds) ==
    LET s2 == Put(st, "paused_until",
                  IF Get(st, "paused_until", 0) > t + seconds
                  THEN Get(st, "paused_until", 0) ELSE t + seconds)
    IN Outcome(s2, save(s2), 0, "none", FALSE, FALSE)

pause_for(st, fl, t, seconds) ==
    LET s2 == Put(st, "paused_until", t + seconds)
    IN Outcome(s2, save(s2), 0, "none", FALSE, FALSE)

shutdown_for(st, fl, t, seconds) ==
    LET s2 == Put(st, "shutdown_until", t + seconds)
    IN Outcome(s2, save(s2), 0, "none", FALSE, FALSE)

\* mutant: the pnl is added before the day is checked, so the first close of a
\* day is booked on the day before and lost in the reset
on_trade_closed_adds_first(st, fl, t, offset, pnl, n, dur) ==
    LET e == ensure_day_initialized(Put(st, "day_pnl", Get(st, "day_pnl", 0) + pnl),
                                    fl, t, offset) IN
    IF e.exc # "none" THEN e
    ELSE
      LET s2 == Put(e.st, "consecutive_losses",
                    IF pnl < 0 THEN Get(e.st, "consecutive_losses", 0) + 1 ELSE 0)
          triggered_pause == s2["consecutive_losses"] >= n
          p == pause_for(s2, save(s2), t, dur)
      IN IF triggered_pause
         THEN Outcome(p.st, p.fl, p.st["day_pnl"], "none", e.reset, TRUE)
         ELSE Outcome(s2, save(s2), s2["day_pnl"], "none", e.reset, FALSE)

\* mutant: the loss streak shuts trading down as well as pausing it
on_trade_closed_shuts_down(st, fl, t, offset, pnl, n, dur) ==
    LET e == ensure_day_initialized(st, fl, t, offset) IN
    IF e.exc # "none" THEN e
    ELSE
      LET s1 == Put(e.st, "day_pnl", Get(e.st, "day_pnl", 0) + pnl)
          s2 == Put(s1, "consecutive_losses",
                    IF pnl < 0 THEN Get(s1, "consecutive_losses", 0) + 1 ELSE 0)
          triggered_pause == s2["consecutive_losses"] >= n
          p == pause_for(s2, save(s2), t, dur)
          q == shutdown_for(p.st, p.fl, t, dur)
      IN IF triggered_pause
         THEN Outcome(q.st, q.fl, q.st["day_pnl"], "none", e.reset, TRUE)
         ELSE Outcome(s2, save(s2), s2["day_pnl"], "none", e.reset, FALSE)

\* mutant: the pause fires one loss late (> for >=)
on_trade_closed_late(st, fl, t, offset, pnl, n, dur) ==
    LET e == ensure_day_initialized(st, fl, t, offset) IN
    IF e.exc # "none" THEN e
    ELSE
      LET s1 == Put(e.st, "day_pnl", Get(e.st, "day_pnl", 0) + pnl)
          s2 == Put(s1, "consecutive_losses",
                    IF pnl < 0 THEN Get(s1, "consecutive_losses", 0) + 1 ELSE 0)
          triggered_pause == s2["consecutive_losses"] > n
          p == pause_for(s2, save(s2), t, dur)
      IN IF triggered_pause
         THEN Outcome(p.st, p.fl, p.st["day_pnl"], "none", e.reset, TRUE)
         ELSE Outcome(s2, save(s2), s2["day_pnl"], "none", e.reset, FALSE)

\* mutant: a break-even close counts as a loss (<= for <)
on_trade_closed_zero_is_loss(st, fl, t, offset, pnl, n, dur) ==
    LET e == ensure_day_initialized(st, fl, t, offset) IN
    IF e.exc # "none" THEN e
    ELSE
      LET s1 == Put(e.st, "day_pnl", Get(e.st, "day_pnl", 0) + pnl)
          s2 == Put(s1, "consecutive_losses",
                    IF pnl <= 0 THEN Get(s1, "consecutive_losses", 0) + 1 ELSE 0)
          triggered_pause == s2["consecutive_losses"] >= n
          p == pause_for(s2, save(s2), t, dur)
      IN IF triggered_pause
         THEN Outcome(p.st, p.fl, p.st["day_pnl"], "none", e.reset, TRUE)
         ELSE Outcome(s2, save(s2), s2["day_pnl"], "none", e.reset, FALSE)

\* mutant: a pause that fires starts the streak afresh
on_trade_closed_resets_streak(st, fl, t, offset, pnl, n, dur) ==
    LET e == ensure_day_initialized(st, fl, t, offset) IN
    IF e.exc # "none" THEN e
    ELSE
      LET s1 == Put(e.st, "day_pnl", Get(e.st, "day_pnl", 0) + pnl)
          s2 == Put(s1, "consecutive_losses",
                    IF pnl < 0 THEN Get(s1, "consecutive_losses", 0) + 1 ELSE 0)
          triggered_pause == s2["consecutive_losses"] >= n
          s3 == Put(s2, "consecutive_losses", 0)
          p == pause_for(s3, save(s3), t, dur)
      IN IF triggered_pause
         THEN Outcome(p.st, p.fl, p.st["day_pnl"], "none", e.reset, TRUE)
         ELSE Outcome(s2, save(s2), s2["day_pnl"], "none", e.reset, FALSE)

on_trade_closed(st, fl, t, offset, pnl, n, dur) ==
    LET e == ensure_day_initialized(st, fl, t, offset) IN
    IF e.exc # "none" THEN e
    ELSE
      LET s1 == Put(e.st, "day_pnl", Get(e.st, "day_pnl", 0) + pnl)
          s2 == Put(s1, "consecutive_losses",
                    IF pnl < 0 THEN Get(s1, "consecutive_losses", 0) + 1 ELSE 0)
          triggered_pause == s2["consecutive_losses"] >= n
          p == pause_for(s2, save(s2), t, dur)
      IN IF triggered_pause
         THEN Outcome(p.st, p.fl, p.st["day_pnl"], "none", e.reset, TRUE)
         ELSE Outcome(s2, save(s2), s2["day_pnl"], "none", e.reset, FALSE)

get_day_pnl(st, fl, t, offset) ==
    LET e == ensure_day_initialized(st, fl, t, offset) IN
    IF e.exc # "none" THEN e
    ELSE Outcome(e.st, e.fl, Get(e.st, "day_pnl", 0), "none", e.reset, FALSE)

----------------------------------------------------------------------------
(* The record of a call *)

Call(op, pnl, o) ==
    [op |-> op, pnl |-> pnl, ret |-> o.ret, exc |-> o.exc, reset |-> o.reset,
     trig |-> o.trig,
     losses |-> IF op = "on_trade_closed" THEN Get(o.st, "consecutive_losses", 0) ELSE 0]

\* no call since the construction, or since the last sleep
NoCall(op) == [op |-> op, pnl |-> 0, ret |-> 0, exc |-> "none", reset |-> FALSE,
               trig |-> FALSE, losses |-> 0]

\* a call that ran ensure_day_initialized to its end consulted the governor today
Consulted(o) == IF o.exc = "none" THEN UtcDay(now) ELSE consulted

----------------------------------------------------------------------------
(* RiskManager: the actions *)

RiskInit ==
    /\ now = StartTime
    /\ tz \in TzOffsets
    /\ pause_after_losses \in PauseAfter
    /\ pause_duration_sec \in {h * HourSeconds : h \in PauseHours}
    /\ rmFile = NoFile
    /\ rmState = load(rmFile)
    /\ rmLast = NoCall("init")
    /\ closes = <<>>
    /\ consulted = -1
    \* the guard is constructed and never called
    /\ max_trades_per_hour = 2
    /\ cooldown_seconds = 10 * MinuteSeconds
    /\ last_trades = <<>>
    /\ last_close_time = <<>>
    /\ gLast = [op |-> "init", ret |-> FALSE]
    /\ opens = <<>>
    /\ closedAt = <<>>
    /\ advised = TRUE
    \* the planner is constructed and never called
    /\ teBuilt = "ready"
    /\ teCfg = DefaultExecution
    /\ teArgs = NoArguments
    /\ teResult = <<>>
    \* no stagnation check is made
    /\ tsLast = <<>>
    \* the loop does not reach its daily-loss check
    /\ settings = DefaultSettings
    /\ starting_equity = Zero
    /\ lossCheck = <<>>
    \* the tracker is constructed and never called
    /\ max_candles_5m = 10
    /\ position_entry_time = <<>>
    /\ position_entry_candle_count = 0
    /\ position_side = <<>>
    /\ position_entry_price = <<>>
    /\ ptLast = NoTrackerCall
    /\ ptOpened = <<>>
    /\ ptCandles = 0
    /\ ptClosed = <<>>
    /\ exPosition = "flat"
    /\ placed = <<>>
    /\ exClosed = <<>>
    /\ rate_limit_backoff = BackoffStart
    /\ fetched = "init"

\* the loop sleeps; the clock advances
Tick ==
    /\ \E d \in RiskSteps :
         /\ now + d <= EndTime
         /\ now' = now + d
    /\ rmLast' = NoCall("sleep")
    /\ UNCHANGED <<tz, pause_after_losses, pause_duration_sec, rmState, rmFile,
                   closes, consulted>>
    /\ UNCHANGED notRisk

Apply(op, pnl, o) ==
    /\ rmState' = o.st
    /\ rmFile' = o.fl
    /\ rmLast' = Call(op, pnl, o)
    /\ UNCHANGED <<now, tz, pause_after_losses, pause_duration_sec>>
    /\ UNCHANGED notRisk

EnsureDayInitialized ==
    LET o == ensure_day_initialized(rmState, rmFile, now, tz) IN
    /\ Apply("ensure_day_initialized", 0, o)
    /\ consulted' = Consulted(o)
    /\ UNCHANGED closes

GetDayPnl ==
    LET o == get_day_pnl(rmState, rmFile, now, tz) IN
    /\ Apply("get_day_pnl", 0, o)
    /\ consulted' = Consulted(o)
    /\ UNCHANGED closes

IsPaused ==
    /\ rmLast' = Call("is_paused", 0,
                      Outcome(rmState, rmFile, is_paused(rmState, now), "none", FALSE, FALSE))
    /\ UNCHANGED <<now, tz, pause_after_losses, pause_duration_sec, rmState, rmFile,
                   closes, consulted>>
    /\ UNCHANGED notRisk

IsShutdown ==
    /\ rmLast' = Call("is_shutdown", 0,
                      Outcome(rmState, rmFile, is_shutdown(rmState, now), "none", FALSE, FALSE))
    /\ UNCHANGED <<now, tz, pause_after_losses, pause_duration_sec, rmState, rmFile,
                   closes, consulted>>
    /\ UNCHANGED notRisk

PauseFor ==
    /\ \E h \in PauseHours :
         Apply("pause_for", 0, pause_for(rmState, rmFile, now, h * HourSeconds))
    /\ UNCHANGED <<closes, consulted>>

ShutdownFor ==
    /\ \E h \in ShutdownHours :
         Apply("shutdown_for", 0, shutdown_for(rmState, rmFile, now, h * HourSeconds))
    /\ UNCHANGED <<closes, consulted>>

OnTradeClosed ==
    /\ Len(closes) < MaxCloses
    /\ \E pnl \in Pnls :
         LET o == on_trade_closed(rmState, rmFile, now, tz, pnl,
                                  pause_after_losses, pause_duration_sec) IN
         /\ Apply("on_trade_closed", pnl, o)
         /\ consulted' = Consulted(o)
         /\ closes' = IF o.exc = "none"
                      THEN Append(closes,
                                  [pnl |-> pnl, day |-> UtcDay(now),
                                   before |-> Get(rmState, "consecutive_losses", 0),
                                   trig |-> o.trig])
                      ELSE closes

\* the process ends between two calls and a new one constructs RiskManager()
\* on the same state path
Restart ==
    /\ rmState' = load(rmFile)
    /\ rmLast' = NoCall("restart")
    /\ UNCHANGED <<now, tz, pause_after_losses, pause_duration_sec, rmFile, closes, consulted>>
    /\ UNCHANGED notRisk

RiskNext ==
    \/ Tick
    \/ EnsureDayInitialized
    \/ GetDayPnl
    \/ IsPaused
    \/ IsShutdown
    \/ PauseFor
    \/ ShutdownFor
    \/ OnTradeClosed
    \/ Restart

----------------------------------------------------------------------------
(* FrequencyGuard *)

\* settings.max_trades_per_hour (ge=0)
MaxTrades == {0, 1, 2}
\* settings.cooldown_minutes (ge=0)
CooldownMinutes == {0, 20}
\* the sleeps between two calls of the guard, in seconds
GuardSteps == {10 * MinuteSeconds, 50 * MinuteSeconds}
GuardEndTime == StartTime + MaxGuardMinutes * MinuteSeconds

\* [t for t in self.last_trades if now - t < 3600]
Prune(lt, t) == SelectSeq(lt, LAMBDA x : t - x < HourSeconds)

\* the truth value Python gives self.last_close_time: None and 0 are false
Truthy(lct) == lct # <<>> /\ lct[1] # 0

\* mutant: the number of trades in the window is not looked at
allow_new_trade_ignores_cap(lt, lct, t, cap, cooldown) ==
    LET pruned == Prune(lt, t) IN
    [last_trades |-> pruned,
     ret |-> IF Truthy(lct) /\ t - lct[1] < cooldown THEN FALSE ELSE TRUE]

\* mutant: the cap is reached one trade late (> for >=)
allow_new_trade_late(lt, lct, t, cap, cooldown) ==
    LET pruned == Prune(lt, t) IN
    [last_trades |-> pruned,
     ret |-> IF Len(pruned) > cap THEN FALSE
             ELSE IF Truthy(lct) /\ t - lct[1] < cooldown THEN FALSE
             ELSE TRUE]

\* mutant: the cooldown still blocks at its last second (<= for <)
allow_new_trade_inclusive(lt, lct, t, cap, cooldown) ==
    LET pruned == Prune(lt, t) IN
    [last_trades |-> pruned,
     ret |-> IF Len(pruned) >= cap THEN FALSE
             ELSE IF Truthy(lct) /\ t - lct[1] <= cooldown THEN FALSE
             ELSE TRUE]

\* mutant: the cooldown is looked at only when a trade is in the window
allow_new_trade_skips_cooldown(lt, lct, t, cap, cooldown) ==
    LET pruned == Prune(lt, t) IN
    [last_trades |-> pruned,
     ret |-> IF Len(pruned) >= cap THEN FALSE
             ELSE IF pruned # <<>> /\ Truthy(lct) /\ t - lct[1] < cooldown THEN FALSE
             ELSE TRUE]

allow_new_trade(lt, lct, t, cap, cooldown) ==
    LET pruned == Prune(lt, t) IN
    [last_trades |-> pruned,
     ret |-> IF Len(pruned) >= cap THEN FALSE
             ELSE IF Truthy(lct) /\ t - lct[1] < cooldown THEN FALSE
             ELSE TRUE]

record_open(lt, t) == Append(lt, t)

record_close(t) == <<t>>

GuardInit ==
    /\ now = StartTime
    /\ max_trades_per_hour \in MaxTrades
    /\ cooldown_seconds \in {m * MinuteSeconds : m \in CooldownMinutes}
    /\ last_trades = <<>>
    /\ last_close_time = <<>>
    /\ gLast = [op |-> "init", ret |-> FALSE]
    /\ opens = <<>>
    /\ closedAt = <<>>
    /\ advised = TRUE
    \* the planner is constructed and never called
    /\ teBuilt = "ready"
    /\ teCfg = DefaultExecution
    /\ teArgs = NoArguments
    /\ teResult = <<>>
    \* the risk manager is constructed and never called
    /\ tz = 0
    /\ pause_after_losses = 3
    /\ pause_duration_sec = 24 * HourSeconds
    /\ rmFile = NoFile
    /\ rmState = load(rmFile)
    /\ rmLast = NoCall("init")
    /\ closes = <<>>
    /\ consulted = -1
    \* no stagnation check is made
    /\ tsLast = <<>>
    \* the loop does not reach its daily-loss check
    /\ settings = DefaultSettings
    /\ starting_equity = Zero
    /\ lossCheck = <<>>
    \* the tracker is constructed and never called
    /\ max_candles_5m = 10
    /\ position_entry_time = <<>>
    /\ position_entry_candle_count = 0
    /\ position_side = <<>>
    /\ position_entry_price = <<>>
    /\ ptLast = NoTrackerCall
    /\ ptOpened = <<>>
    /\ ptCandles = 0
    /\ ptClosed = <<>>
    /\ exPosition = "flat"
    /\ placed = <<>>
    /\ exClosed = <<>>
    /\ rate_limit_backoff = BackoffStart
    /\ fetched = "init"

\* the loop sleeps; the clock advances
GuardTick ==
    /\ \E d \in GuardSteps :
         /\ now + d <= GuardEndTime
         /\ now' = now + d
    /\ gLast' = [op |-> "sleep", ret |-> FALSE]
    /\ UNCHANGED <<max_trades_per_hour, cooldown_seconds, last_trades, last_close_time,
                   opens, closedAt, advised>>
    /\ UNCHANGED notGuard

AllowNewTrade ==
    LET r == allow_new_trade(last_trades, last_close_time, now,
                             max_trades_per_hour, cooldown_seconds) IN
    /\ last_trades' = r.last_trades
    /\ gLast' = [op |-> "allow_new_trade", ret |-> r.ret]
    /\ UNCHANGED <<now, max_trades_per_hour, cooldown_seconds, last_close_time,
                   opens, closedAt, advised>>
    /\ UNCHANGED notGuard

RecordOpen ==
    /\ Len(opens) < MaxOpens
    /\ last_trades' = record_open(last_trades, now)
    /\ opens' = Append(opens, now)
    /\ gLast' = [op |-> "record_open", ret |-> FALSE]
    /\ advised' = (advised /\ gLast.op = "allow_new_trade" /\ gLast.ret)
    /\ UNCHANGED <<now, max_trades_per_hour, cooldown_seconds, last_close_time, closedAt>>
    /\ UNCHANGED notGuard

RecordClose ==
    /\ last_close_time' = record_close(now)
    /\ closedAt' = <<now>>
    /\ gLast' = [op |-> "record_close", ret |-> FALSE]
    /\ UNCHANGED <<now, max_trades_per_hour, cooldown_seconds, last_trades, opens, advised>>
    /\ UNCHANGED notGuard

GuardNext ==
    \/ GuardTick
    \/ AllowNewTrade
    \/ RecordOpen
    \/ RecordClose

vars == <<riskVars, guardVars, execVars, stopVars, loopVars, trackerVars, runVars>>

SpecRisk == RiskInit /\ [][RiskNext]_vars

SpecGuard == GuardInit /\ [][GuardNext]_vars

----------------------------------------------------------------------------
(* TradeExecution *)

\* the arguments __init__ is called with: each entry mode and one name that is
\* none, two stop distances, two reward-to-risk minima, two ATR periods
Executions ==
    [entry_mode : EntryModes \cup {"market"}, stop_atr_multiplier : {Rat(3, 2), Num(2)},
     min_rr_ratio : {Num(2), Rat(3, 2)}, time_stop_candles : {8},
     atr_period : {2, 3}]

\* the candles of the feed, in whole dollars: a flat bar and a bar that gaps up
Candles ==
    {[high |-> 3000, low |-> 3000, close |-> 3000],
     [high |-> 3040, low |-> 3020, close |-> 3030]}

RECURSIVE SeqsUpTo(_, _)
SeqsUpTo(S, n) ==
    IF n = 0 THEN {<<>>}
    ELSE LET shorter == SeqsUpTo(S, n - 1)
         IN shorter \cup {Append(q, x) : q \in {r \in shorter : Len(r) = n - 1}, x \in S}

Directions == {"long", "short", "flat"}
\* None, or a level
FractalLevels == {<<>>, <<Num(3000)>>}
InvalidationLevels == {<<>>, <<Num(2980)>>, <<Num(3020)>>}

\* the literals of the planner: 1.0005, 0.9995, 0.2 and 2
RetestAbove == Rat(10005, 10000)
RetestBelow == Rat(9995, 10000)
InvalidationBuffer == Rat(2, 10)
Two == Num(2)

\* mutant: the window has no candle before the averaged bars
calculate_current_atr_short_window(cfg, candles) ==
    LET w == LastN(candles, cfg.atr_period)
        tr == [i \in 1..Len(w) |->
                 IF i = 1 THEN Num(w[1].high - w[1].low)
                 ELSE LET hl == Num(w[i].high - w[i].low)
                          hc == Num(Abs(w[i].high - w[i - 1].close))
                          lc == Num(Abs(w[i].low - w[i - 1].close))
                      IN FMax(FMax(hl, hc), lc)]
        recent == LastN(tr, cfg.atr_period)
    IN FDiv(FSum(recent, Zero), Num(Len(recent)))

\* TradeExecution._calculate_current_atr
calculate_current_atr(cfg, candles) ==
    LET w == LastN(candles, cfg.atr_period + 1)
        tr == [i \in 1..Len(w) |->
                 IF i = 1 THEN Num(w[1].high - w[1].low)
                 ELSE LET hl == Num(w[i].high - w[i].low)
                          hc == Num(Abs(w[i].high - w[i - 1].close))
                          lc == Num(Abs(w[i].low - w[i - 1].close))
                      IN FMax(FMax(hl, hc), lc)]
        recent == LastN(tr, cfg.atr_period)
    IN FDiv(FSum(recent, Zero), Num(Len(recent)))

\* mutant: the retest offsets are swapped (a long enters below the level)
calculate_break_retest_entry_swapped(direction, fractal_level, current_price) ==
    IF fractal_level = <<>> THEN current_price
    ELSE IF direction = "long" THEN FMul(fractal_level[1], RetestBelow)
    ELSE FMul(fractal_level[1], RetestAbove)

\* TradeExecution._calculate_break_retest_entry
calculate_break_retest_entry(direction, fractal_level, current_price) ==
    IF fractal_level = <<>> THEN current_price
    ELSE IF direction = "long" THEN FMul(fractal_level[1], RetestAbove)
    ELSE FMul(fractal_level[1], RetestBelow)

\* TradeExecution._calculate_pullback_entry
calculate_pullback_entry(direction, fractal_level, current_price) ==
    IF fractal_level = <<>> THEN current_price ELSE fractal_level[1]

\* TradeExecution._calculate_limit_entry
calculate_limit_entry(direction, fractal_level, current_price) ==
    IF fractal_level = <<>> THEN current_price
    ELSE FDiv(FAdd(current_price, fractal_level[1]), Two)

\* mutant: the tighter of the two stops is taken (max for min, min for max)
calculate_stop_loss_tightest(cfg, entry_price, direction, atr, invalidation_level) ==
    LET stop_distance == FMul(atr, cfg.stop_atr_multiplier) IN
    IF direction = "long"
    THEN LET atr_stop == FSub(entry_price, stop_distance) IN
         IF invalidation_level # <<>>
         THEN FMax(atr_stop, FSub(invalidation_level[1], FMul(atr, InvalidationBuffer)))
         ELSE atr_stop
    ELSE LET atr_stop == FAdd(entry_price, stop_distance) IN
         IF invalidation_level # <<>>
         THEN FMin(atr_stop, FAdd(invalidation_level[1], FMul(atr, InvalidationBuffer)))
         ELSE atr_stop

\* TradeExecution._calculate_stop_loss
calculate_stop_loss(cfg, entry_price, direction, atr, invalidation_level) ==
    LET stop_distance == FMul(atr, cfg.stop_atr_multiplier) IN
    IF direction = "long"
    THEN LET atr_stop == FSub(entry_price, stop_distance) IN
         IF invalidation_level # <<>>
         THEN FMin(atr_stop, FSub(invalidation_level[1], FMul(atr, InvalidationBuffer)))
         ELSE atr_stop
    ELSE LET atr_stop == FAdd(entry_price, stop_distance) IN
         IF invalidation_level # <<>>
         THEN FMax(atr_stop, FAdd(invalidation_level[1], FMul(atr, InvalidationBuffer)))
         ELSE atr_stop

Rejected(reason) == [valid |-> FALSE, reason |-> reason]

\* an assignment: the value is computed once and the rest reads it by name
Bind(value, Rest(_)) == Rest(value)

\* mutant: a risk of zero passes the guard (< for <=)
calculate_entry_stop_target_zero_risk(cfg, candles, direction, fractal_level, invalidation_level) ==
    IF Len(candles) < cfg.atr_period
    THEN Rejected("Insufficient data for execution calculation")
    ELSE
      Bind(Num(candles[Len(candles)].close), LAMBDA current_price :
      Bind(calculate_current_atr(cfg, candles), LAMBDA atr :
      Bind(IF cfg.entry_mode = "break_retest"
           THEN calculate_break_retest_entry(direction, fractal_level, current_price)
           ELSE IF cfg.entry_mode = "pullback"
           THEN calculate_pullback_entry(direction, fractal_level, current_price)
           ELSE calculate_limit_entry(direction, fractal_level, current_price),
           LAMBDA entry_price :
      Bind(calculate_stop_loss(cfg, entry_price, direction, atr, invalidation_level),
           LAMBDA stop_loss :
      Bind(IF direction = "long" THEN FSub(entry_price, stop_loss)
           ELSE FSub(stop_loss, entry_price), LAMBDA risk :
      Bind(IF direction = "long" THEN FAdd(entry_price, FMul(risk, cfg.min_rr_ratio))
           ELSE FSub(entry_price, FMul(risk, cfg.min_rr_ratio)), LAMBDA target :
      Bind(FAbs(FSub(target, entry_price)), LAMBDA reward :
      Bind(FDiv(reward, risk), LAMBDA rr_ratio :
        IF FLt(risk, Num(0)) THEN Rejected("Invalid risk calculation (risk <= 0)")
        ELSE IF FLt(rr_ratio, cfg.min_rr_ratio) THEN Rejected("R:R ratio below minimum")
        ELSE [valid |-> TRUE, entry_price |-> entry_price, stop_loss |-> stop_loss,
              target |-> target, risk |-> risk, reward |-> reward,
              rr_ratio |-> rr_ratio, atr |-> atr, direction |-> direction,
              entry_mode |-> cfg.entry_mode]))))))))

\* mutant: a list of exactly atr_period candles is rejected too (<= for <)
calculate_entry_stop_target_needs_more(cfg, candles, direction, fractal_level, invalidation_level) ==
    IF Len(candles) <= cfg.atr_period
    THEN Rejected("Insufficient data for execution calculation")
    ELSE
      Bind(Num(candles[Len(candles)].close), LAMBDA current_price :
      Bind(calculate_current_atr(cfg, candles), LAMBDA atr :
      Bind(IF cfg.entry_mode = "break_retest"
           THEN calculate_break_retest_entry(direction, fractal_level, current_price)
           ELSE IF cfg.entry_mode = "pullback"
           THEN calculate_pullback_entry(direction, fractal_level, current_price)
           ELSE calculate_limit_entry(direction, fractal_level, current_price),
           LAMBDA entry_price :
      Bind(calculate_stop_loss(cfg, entry_price, direction, atr, invalidation_level),
           LAMBDA stop_loss :
      Bind(IF direction = "long" THEN FSub(entry_price, stop_loss)
           ELSE FSub(stop_loss, entry_price), LAMBDA risk :
      Bind(IF direction = "long" THEN FAdd(entry_price, FMul(risk, cfg.min_rr_ratio))
           ELSE FSub(entry_price, FMul(risk, cfg.min_rr_ratio)), LAMBDA target :
      Bind(FAbs(FSub(target, entry_price)), LAMBDA reward :
      Bind(FDiv(reward, risk), LAMBDA rr_ratio :
        IF FLe(risk, Num(0)) THEN Rejected("Invalid risk calculation (risk <= 0)")
        ELSE IF FLt(rr_ratio, cfg.min_rr_ratio) THEN Rejected("R:R ratio below minimum")
        ELSE [valid |-> TRUE, entry_price |-> entry_price, stop_loss |-> stop_loss,
              target |-> target, risk |-> risk, reward |-> reward,
              rr_ratio |-> rr_ratio, atr |-> atr, direction |-> direction,
              entry_mode |-> cfg.entry_mode]))))))))

\* TradeExecution.calculate_entry_stop_target
calculate_entry_stop_target(cfg, candles, direction, fractal_level, invalidation_level) ==
    IF Len(candles) < cfg.atr_period
    THEN Rejected("Insufficient data for execution calculation")
    ELSE
      Bind(Num(candles[Len(candles)].close), LAMBDA current_price :
      Bind(calculate_current_atr(cfg, candles), LAMBDA atr :
      Bind(IF cfg.entry_mode = "break_retest"
           THEN calculate_break_retest_entry(direction, fractal_level, current_price)
           ELSE IF cfg.entry_mode = "pullback"
           THEN calculate_pullback_entry(direction, fractal_level, current_price)
           ELSE calculate_limit_entry(direction, fractal_level, current_price),
           LAMBDA entry_price :
      Bind(calculate_stop_loss(cfg, entry_price, direction, atr, invalidation_level),
           LAMBDA stop_loss :
      Bind(IF direction = "long" THEN FSub(entry_price, stop_loss)
           ELSE FSub(stop_loss, entry_price), LAMBDA risk :
      Bind(IF direction = "long" THEN FAdd(entry_price, FMul(risk, cfg.min_rr_ratio))
           ELSE FSub(entry_price, FMul(risk, cfg.min_rr_ratio)), LAMBDA target :
      Bind(FAbs(FSub(target, entry_price)), LAMBDA reward :
      Bind(FDiv(reward, risk), LAMBDA rr_ratio :
        IF FLe(risk, Num(0)) THEN Rejected("Invalid risk calculation (risk <= 0)")
        ELSE IF FLt(rr_ratio, cfg.min_rr_ratio) THEN Rejected("R:R ratio below minimum")
        ELSE [valid |-> TRUE, entry_price |-> entry_price, stop_loss |-> stop_loss,
              target |-> target, risk |-> risk, reward |-> reward,
              rr_ratio |-> rr_ratio, atr |-> atr, direction |-> direction,
              entry_mode |-> cfg.entry_mode]))))))))

\* TradeExecution.__init__: "ready" with the arguments as fields, or the exception raised
init(cfg) == IF cfg.entry_mode \notin EntryModes THEN "ValueError" ELSE "ready"

ExecInit ==
    /\ teBuilt = "new"
    /\ teCfg \in Executions
    /\ teArgs \in [candles : SeqsUpTo(Candles, MaxCandles), direction : Directions,
                   fractal_level : FractalLevels,
                   invalidation_level : InvalidationLevels]
    /\ teResult = <<>>
    /\ now = StartTime
    \* the risk manager is constructed and never called
    /\ tz = 0
    /\ pause_after_losses = 3
    /\ pause_duration_sec = 24 * HourSeconds
    /\ rmFile = NoFile
    /\ rmState = load(rmFile)
    /\ rmLast = NoCall("init")
    /\ closes = <<>>
    /\ consulted = -1
    \* the guard is constructed and never called
    /\ max_trades_per_hour = 2
    /\ cooldown_seconds = 10 * MinuteSeconds
    /\ last_trades = <<>>
    /\ last_close_time = <<>>
    /\ gLast = [op |-> "init", ret |-> FALSE]
    /\ opens = <<>>
    /\ closedAt = <<>>
    /\ advised = TRUE
    \* no stagnation check is made
    /\ tsLast = <<>>
    \* the loop does not reach its daily-loss check
    /\ settings = DefaultSettings
    /\ starting_equity = Zero
    /\ lossCheck = <<>>
    \* the tracker is constructed and never called
    /\ max_candles_5m = 10
    /\ position_entry_time = <<>>
    /\ position_entry_candle_count = 0
    /\ position_side = <<>>
    /\ position_entry_price = <<>>
    /\ ptLast = NoTrackerCall
    /\ ptOpened = <<>>
    /\ ptCandles = 0
    /\ ptClosed = <<>>
    /\ exPosition = "flat"
    /\ placed = <<>>
    /\ exClosed = <<>>
    /\ rate_limit_backoff = BackoffStart
    /\ fetched = "init"

\* the call, made once on the arguments drawn
Construct ==
    /\ teBuilt = "new"
    /\ teBuilt' = init(teCfg)
    /\ UNCHANGED <<teCfg, teArgs, teResult>>
    /\ UNCHANGED notExec

CalculateEntryStopTarget ==
    /\ teBuilt = "ready"
    /\ teResult = <<>>
    /\ teResult' = <<calculate_entry_stop_target(teCfg, teArgs.candles, teArgs.direction,
                                                 teArgs.fractal_level,
                                                 teArgs.invalidation_level)>>
    /\ UNCHANGED <<teBuilt, teCfg, teArgs>>
    /\ UNCHANGED notExec

ExecNext ==
    \/ Construct
    \/ CalculateEntryStopTarget

SpecExec == ExecInit /\ [][ExecNext]_vars

----------------------------------------------------------------------------
(* TradeExecution.check_time_stop, called on a position being monitored *)

\* settings.time_stop_candles (ge=5, le=15)
TimeStopCandles == {5, 8}
\* entry_price: a position's entry, and 0
StopEntryPrices == {0, 3000}
\* current_price: moves of 0, 0.1, 0.3 and 0.4 per cent from 3000
StopCurrentPrices == {2991, 2997, 3000, 3003, 3009, 3012}

\* the movement below which a position stagnates
StagnationPct == Rat(3, 1000)

\* the dict returned when the time stop does not trigger
NoTimeStop == [should_exit |-> FALSE, exit_type |-> "None"]

\* mutant: the stop waits for one more candle
check_time_stop_late(cfg, entry_price, current_price, candles_since_entry) ==
    IF candles_since_entry > cfg.time_stop_candles
    THEN IF FIsZero(entry_price) THEN [exc |-> "ZeroDivisionError", ret |-> <<>>]
         ELSE LET price_change_pct ==
                      FDiv(FAbs(FSub(current_price, entry_price)), entry_price)
              IN IF FLt(price_change_pct, StagnationPct)
                 THEN [exc |-> "none",
                       ret |-> <<[should_exit |-> TRUE, exit_type |-> "time_stop"]>>]
                 ELSE [exc |-> "none", ret |-> <<NoTimeStop>>]
    ELSE [exc |-> "none", ret |-> <<NoTimeStop>>]

\* TradeExecution.check_time_stop; entry_time, current_time and direction are not read
check_time_stop(cfg, entry_price, current_price, candles_since_entry) ==
    IF candles_since_entry >= cfg.time_stop_candles
    THEN IF FIsZero(entry_price) THEN [exc |-> "ZeroDivisionError", ret |-> <<>>]
         ELSE LET price_change_pct ==
                      FDiv(FAbs(FSub(current_price, entry_price)), entry_price)
              IN IF FLt(price_change_pct, StagnationPct)
                 THEN [exc |-> "none",
                       ret |-> <<[should_exit |-> TRUE, exit_type |-> "time_stop"]>>]
                 ELSE [exc |-> "none", ret |-> <<NoTimeStop>>]
    ELSE [exc |-> "none", ret |-> <<NoTimeStop>>]

StopInit ==
    /\ teBuilt = "ready"
    /\ teCfg \in {[DefaultExecution EXCEPT !.time_stop_candles = n] : n \in TimeStopCandles}
    /\ teArgs = NoArguments
    /\ teResult = <<>>
    /\ tsLast = <<>>
    /\ now = StartTime
    \* the risk manager is constructed and never called
    /\ tz = 0
    /\ pause_after_losses = 3
    /\ pause_duration_sec = 24 * HourSeconds
    /\ rmFile = NoFile
    /\ rmState = load(rmFile)
    /\ rmLast = NoCall("init")
    /\ closes = <<>>
    /\ consulted = -1
    \* the guard is constructed and never called
    /\ max_trades_per_hour = 2
    /\ cooldown_seconds = 10 * MinuteSeconds
    /\ last_trades = <<>>
    /\ last_close_time = <<>>
    /\ gLast = [op |-> "init", ret |-> FALSE]
    /\ opens = <<>>
    /\ closedAt = <<>>
    /\ advised = TRUE
    \* the loop does not reach its daily-loss check
    /\ settings = DefaultSettings
    /\ starting_equity = Zero
    /\ lossCheck = <<>>
    \* the tracker is constructed and never called
    /\ max_candles_5m = 10
    /\ position_entry_time = <<>>
    /\ position_entry_candle_count = 0
    /\ position_side = <<>>
    /\ position_entry_price = <<>>
    /\ ptLast = NoTrackerCall
    /\ ptOpened = <<>>
    /\ ptCandles = 0
    /\ ptClosed = <<>>
    /\ exPosition = "flat"
    /\ placed = <<>>
    /\ exClosed = <<>>
    /\ rate_limit_backoff = BackoffStart
    /\ fetched = "init"

\* one call, on any position and candle count
CheckTimeStop ==
    /\ teBuilt = "ready"
    /\ \E entry_price \in StopEntryPrices, current_price \in StopCurrentPrices,
          candles_since_entry \in 0..MaxSinceEntry :
          LET o == check_time_stop(teCfg, Num(entry_price), Num(current_price),
                                   candles_since_entry)
          IN tsLast' = <<[entry_price |-> entry_price, current_price |-> current_price,
                          candles_since_entry |-> candles_since_entry,
                          exc |-> o.exc, ret |-> o.ret]>>
    /\ UNCHANGED execVars
    /\ UNCHANGED notStop

StopNext == CheckTimeStop

SpecStop == StopInit /\ [][StopNext]_vars

----------------------------------------------------------------------------
(* The daily-loss check of the polling loop, run_live_async *)

\* settings.daily_loss_limit_pct (ge=0, le=1): 0.06 and 0.07
LossLimits == {Rat(6, 100), Rat(7, 100)}
\* settings.shutdown_duration_hours (ge=1)
LoopShutdownHours == {1, 24}
\* starting_equity of the P&L tracker; 0 when it reports none
StartingEquities == {Zero, Num(5000), Num(10000)}
\* the day's realized P&L found in the state file
DayPnls == {Num(-700), Rat(-60001, 100), Num(-600), Rat(-59999, 100), Num(-300), Zero}

\* mutant: the limit itself is not a breach
max_daily_loss_reached_strict(day_pnl, start_eq, daily_loss_limit_pct) ==
    /\ FLt(Zero, start_eq)
    /\ FLt(day_pnl, FMul(FNeg(daily_loss_limit_pct), start_eq))

\* start_eq > 0 and day_pnl <= -settings.daily_loss_limit_pct * start_eq
max_daily_loss_reached(day_pnl, start_eq, daily_loss_limit_pct) ==
    /\ FLt(Zero, start_eq)
    /\ FLe(day_pnl, FMul(FNeg(daily_loss_limit_pct), start_eq))

LoopInit ==
    /\ now = StartTime
    /\ tz = 0
    /\ settings \in [daily_loss_limit_pct : LossLimits,
                     shutdown_duration_hours : LoopShutdownHours]
    /\ starting_equity \in StartingEquities
    /\ lossCheck = <<>>
    \* the risk manager is constructed on the file of the day's trades
    /\ pause_after_losses = 3
    /\ pause_duration_sec = 24 * HourSeconds
    /\ rmFile \in {save([Zeroed EXCEPT !["day_start_ts"] = midnight_utc_ts(StartTime, 0),
                                       !["day_pnl"] = p]) : p \in DayPnls}
    /\ rmState = load(rmFile)
    /\ rmLast = NoCall("init")
    /\ closes = <<>>
    /\ consulted = -1
    \* the guard is constructed and never called
    /\ max_trades_per_hour = 2
    /\ cooldown_seconds = 10 * MinuteSeconds
    /\ last_trades = <<>>
    /\ last_close_time = <<>>
    /\ gLast = [op |-> "init", ret |-> FALSE]
    /\ opens = <<>>
    /\ closedAt = <<>>
    /\ advised = TRUE
    \* the planner is constructed and never called
    /\ teBuilt = "ready"
    /\ teCfg = DefaultExecution
    /\ teArgs = NoArguments
    /\ teResult = <<>>
    \* no stagnation check is made
    /\ tsLast = <<>>
    \* the tracker is constructed and never called
    /\ max_candles_5m = 10
    /\ position_entry_time = <<>>
    /\ position_entry_candle_count = 0
    /\ position_side = <<>>
    /\ position_entry_price = <<>>
    /\ ptLast = NoTrackerCall
    /\ ptOpened = <<>>
    /\ ptCandles = 0
    /\ ptClosed = <<>>
    /\ exPosition = "flat"
    /\ placed = <<>>
    /\ exClosed = <<>>
    /\ rate_limit_backoff = BackoffStart
    /\ fetched = "init"

\* one pass of the loop over the check: get_day_pnl, the comparison, shutdown_for
DailyLossCheck ==
    LET g == get_day_pnl(rmState, rmFile, now, tz)
        day_pnl == g.ret
        reached == max_daily_loss_reached(day_pnl, starting_equity,
                                          settings.daily_loss_limit_pct)
        o == IF reached
             THEN shutdown_for(g.st, g.fl, now,
                               settings.shutdown_duration_hours * HourSeconds)
             ELSE g
    IN /\ g.exc = "none"
       /\ rmState' = o.st
       /\ rmFile' = o.fl
       /\ rmLast' = Call(IF reached THEN "shutdown_for" ELSE "get_day_pnl", 0, o)
       /\ consulted' = Consulted(g)
       /\ lossCheck' = <<[day_pnl |-> day_pnl, shutdown |-> reached]>>
       /\ UNCHANGED <<now, settings, starting_equity>>
       /\ UNCHANGED notLoop

LoopNext == DailyLossCheck

SpecLoop == LoopInit /\ [][LoopNext]_vars

----------------------------------------------------------------------------
(* PositionTracker *)

\* max_candles_5m handed to PositionTracker()
MaxCandles5m == {2, 3}
\* side, entry_price and timestamp handed to on_position_opened
Sides == {"long", "short"}
TrackerEntryPrices == {0, 3000}
Timestamps == {0, 1700000000}
\* close of the candle handed to on_new_candle
TrackerCloses == {3000, 3030}

\* the four fields of the tracker that change
Self ==
    [position_entry_time |-> position_entry_time,
     position_entry_candle_count |-> position_entry_candle_count,
     position_side |-> position_side, position_entry_price |-> position_entry_price]

\* mutant: the counter survives the close
on_position_closed_keeps_count(self) ==
    [position_entry_time |-> <<>>,
     position_entry_candle_count |-> self.position_entry_candle_count,
     position_side |-> <<>>, position_entry_price |-> <<>>]

\* PositionTracker.on_position_closed: the fields it leaves
on_position_closed(self) ==
    [position_entry_time |-> <<>>, position_entry_candle_count |-> 0,
     position_side |-> <<>>, position_entry_price |-> <<>>]

on_position_opened(side, entry_price, timestamp) ==
    [position_entry_time |-> <<timestamp>>, position_entry_candle_count |-> 0,
     position_side |-> <<side>>, position_entry_price |-> <<entry_price>>]

\* the dict on_new_candle returns once the candle count is reached
ExitRecommendation(count, entry_price, current_price) ==
    [should_exit |-> TRUE, candles_held |-> count,
     price_change_pct |->
         IF entry_price # <<>> /\ ~FIsZero(entry_price[1])
         THEN FDiv(FAbs(FSub(current_price, entry_price[1])), entry_price[1])
         ELSE Zero]

\* mutant: a candle is counted whether a position is open or not
on_new_candle_always_counts(max, entry_time, count, entry_price, close) ==
    LET c == count + 1 IN
    IF c >= max
    THEN [count |-> c, ret |-> <<ExitRecommendation(c, entry_price, Num(close))>>]
    ELSE [count |-> c, ret |-> <<>>]

\* PositionTracker.on_new_candle: the new counter and the value returned (<<>> for None)
on_new_candle(max, entry_time, count, entry_price, close) ==
    IF ~Truthy(entry_time) THEN [count |-> count, ret |-> <<>>]
    ELSE LET c == count + 1 IN
         IF c >= max
         THEN [count |-> c, ret |-> <<ExitRecommendation(c, entry_price, Num(close))>>]
         ELSE [count |-> c, ret |-> <<>>]

\* PositionTracker.get_status
get_status(max, entry_time, count, side, entry_price) ==
    IF ~Truthy(entry_time) THEN [has_position |-> FALSE]
    ELSE [has_position |-> TRUE, side |-> side[1], entry_price |-> entry_price[1],
          candles_held |-> count,
          candles_remaining |-> IF max - count > 0 THEN max - count ELSE 0]

TrackerInit ==
    /\ max_candles_5m \in MaxCandles5m
    /\ position_entry_time = <<>>
    /\ position_entry_candle_count = 0
    /\ position_side = <<>>
    /\ position_entry_price = <<>>
    /\ ptLast = NoTrackerCall
    /\ ptOpened = <<>>
    /\ ptCandles = 0
    /\ ptClosed = <<>>
    /\ exPosition = "flat"
    /\ placed = <<>>
    /\ exClosed = <<>>
    /\ rate_limit_backoff = BackoffStart
    /\ fetched = "init"
    /\ now = StartTime
    \* the risk manager is constructed and never called
    /\ tz = 0
    /\ pause_after_losses = 3
    /\ pause_duration_sec = 24 * HourSeconds
    /\ rmFile = NoFile
    /\ rmState = load(rmFile)
    /\ rmLast = NoCall("init")
    /\ closes = <<>>
    /\ consulted = -1
    \* the guard is constructed and never called
    /\ max_trades_per_hour = 2
    /\ cooldown_seconds = 10 * MinuteSeconds
    /\ last_trades = <<>>
    /\ last_close_time = <<>>
    /\ gLast = [op |-> "init", ret |-> FALSE]
    /\ opens = <<>>
    /\ closedAt = <<>>
    /\ advised = TRUE
    \* the planner is constructed and never called
    /\ teBuilt = "ready"
    /\ teCfg = DefaultExecution
    /\ teArgs = NoArguments
    /\ teResult = <<>>
    \* no stagnation check is made
    /\ tsLast = <<>>
    \* the loop does not reach its daily-loss check
    /\ settings = DefaultSettings
    /\ starting_equity = Zero
    /\ lossCheck = <<>>

OnPositionOpened ==
    /\ \E side \in Sides, entry_price \in TrackerEntryPrices, timestamp \in Timestamps :
          LET f == on_position_opened(side, Num(entry_price), timestamp) IN
          /\ position_entry_time' = f.position_entry_time
          /\ position_entry_candle_count' = f.position_entry_candle_count
          /\ position_side' = f.position_side
          /\ position_entry_price' = f.position_entry_price
          /\ ptLast' = [op |-> "on_position_opened", ret |-> <<>>]
          /\ ptOpened' = <<[side |-> side, entry_price |-> entry_price,
                            timestamp |-> timestamp]>>
    /\ ptCandles' = 0
    /\ UNCHANGED <<max_candles_5m, ptClosed>>
    /\ UNCHANGED notTracker

OnPositionClosed ==
    /\ position_entry_time' = on_position_closed(Self).position_entry_time
    /\ position_entry_candle_count' = on_position_closed(Self).position_entry_candle_count
    /\ position_side' = on_position_closed(Self).position_side
    /\ position_entry_price' = on_position_closed(Self).position_entry_price
    /\ ptLast' = [op |-> "on_position_closed", ret |-> <<>>]
    /\ ptOpened' = <<>>
    /\ ptCandles' = 0
    /\ ptClosed' = <<position_entry_candle_count>>
    /\ UNCHANGED max_candles_5m
    /\ UNCHANGED notTracker

OnNewCandle ==
    /\ ptCandles < MaxTrackerCandles
    /\ \E close \in TrackerCloses :
          LET o == on_new_candle(max_candles_5m, position_entry_time,
                                 position_entry_candle_count, position_entry_price, close)
          IN /\ position_entry_candle_count' = o.count
             /\ ptLast' = [op |-> "on_new_candle", close |-> close, ret |-> o.ret]
    /\ ptCandles' = ptCandles + 1
    /\ UNCHANGED <<max_candles_5m, position_entry_time, position_side,
                   position_entry_price, ptOpened, ptClosed>>
    /\ UNCHANGED notTracker

GetStatus ==
    /\ ptLast' = [op |-> "get_status",
                  ret |-> <<get_status(max_candles_5m, position_entry_time,
                                       position_entry_candle_count, position_side,
                                       position_entry_price)>>]
    /\ UNCHANGED <<max_candles_5m, position_entry_time, position_entry_candle_count,
                   position_side, position_entry_price, ptOpened, ptCandles, ptClosed>>
    /\ UNCHANGED notTracker

TrackerNext ==
    \/ OnPositionOpened
    \/ OnPositionClosed
    \/ OnNewCandle
    \/ GetStatus

SpecTracker == TrackerInit /\ [][TrackerNext]_vars

----------------------------------------------------------------------------
(* RiskManager constructed on a state file of any content *)

\* the dict an earlier run left behind
PreviousRun(offset) ==
    [day_start_ts |-> midnight_utc_ts(StartTime, offset), day_pnl |-> -2,
     consecutive_losses |-> 1, paused_until |-> StartTime + 6 * HourSeconds,
     shutdown_until |-> 0]

Restrict(d, keys) == [k \in keys |-> d[k]]

\* absent, unparseable, complete, lacking one field, lacking every field
StateFiles(offset) ==
    {NoFile, CorruptFile}
    \cup {save(Restrict(PreviousRun(offset), keys)) :
             keys \in {Fields, {}} \cup {Fields \ {k} : k \in Fields}}

LoadInit ==
    /\ now = StartTime
    /\ tz \in TzOffsets
    /\ pause_after_losses = 2
    /\ pause_duration_sec \in {h * HourSeconds : h \in PauseHours}
    /\ rmFile \in StateFiles(tz)
    /\ rmState = load(rmFile)
    /\ rmLast = NoCall("init")
    /\ closes = <<>>
    /\ consulted = -1
    \* the guard is constructed and never called
    /\ max_trades_per_hour = 2
    /\ cooldown_seconds = 10 * MinuteSeconds
    /\ last_trades = <<>>
    /\ last_close_time = <<>>
    /\ gLast = [op |-> "init", ret |-> FALSE]
    /\ opens = <<>>
    /\ closedAt = <<>>
    /\ advised = TRUE
    \* the planner is constructed and never called
    /\ teBuilt = "ready"
    /\ teCfg = DefaultExecution
    /\ teArgs = NoArguments
    /\ teResult = <<>>
    \* no stagnation check is made
    /\ tsLast = <<>>
    \* the loop does not reach its daily-loss check
    /\ settings = DefaultSettings
    /\ starting_equity = Zero
    /\ lossCheck = <<>>
    \* the tracker is constructed and never called
    /\ max_candles_5m = 10
    /\ position_entry_time = <<>>
    /\ position_entry_candle_count = 0
    /\ position_side = <<>>
    /\ position_entry_price = <<>>
    /\ ptLast = NoTrackerCall
    /\ ptOpened = <<>>
    /\ ptCandles = 0
    /\ ptClosed = <<>>
    /\ exPosition = "flat"
    /\ placed = <<>>
    /\ exClosed = <<>>
    /\ rate_limit_backoff = BackoffStart
    /\ fetched = "init"

SpecLoad == LoadInit /\ [][RiskNext]_vars

----------------------------------------------------------------------------
(* Properties of RiskManager *)

\* the number of most recent closes with pnl < 0 since the last close with pnl >= 0
RECURSIVE TrailingLosses(_)
TrailingLosses(h) ==
    IF h = <<>> THEN 0
    ELSE IF h[Len(h)].pnl < 0 THEN 1 + TrailingLosses(SubSeq(h, 1, Len(h) - 1))
    ELSE 0

\* closes i-n+1 .. i are n consecutive losses that started from consecutive_losses = 0
LossRun(i, n) ==
    /\ i >= n
    /\ closes[i - n + 1].before = 0
    /\ \A j \in (i - n + 1)..i : closes[j].pnl < 0

\* C1: N = pause_after_losses consecutive losing on_trade_closed calls from
\* consecutive_losses = 0: the N-th returns triggered_pause = true and sets
\* paused_until = (time of the call) + pause_duration, so is_paused() is true
\* right after it; none of the first N-1 calls triggers a pause.
C1_LossStreakPause ==
    \A i \in 1..Len(closes) :
        LossRun(i, pause_after_losses) =>
            /\ closes[i].trig
            /\ \A j \in (i - pause_after_losses + 1)..(i - 1) : ~closes[j].trig
            /\ (i = Len(closes) /\ rmLast.op = "on_trade_closed") =>
                   /\ rmLast.trig
                   /\ rmState["paused_until"] = now + pause_duration_sec
                   /\ is_paused(rmState, now)

C1_Witness ==
    /\ pause_after_losses = 3
    /\ Len(closes) = 3
    /\ LossRun(3, 3)
    /\ rmLast.op = "on_trade_closed"
    /\ rmLast.trig

\* C2: after any sequence of calls, day rollovers and restarts, consecutive_losses
\* is the number of most recent closes with pnl < 0 since the last close with
\* pnl >= 0 (a pnl of 0 resets it); with the threshold 3, the two losses after a
\* non-negative close trigger no pause.
C2_StreakCounter ==
    /\ Get(rmState, "consecutive_losses", 0) = TrailingLosses(closes)
    /\ \A i \in 1..Len(closes) :
           (/\ pause_after_losses = 3
            /\ i >= 3
            /\ closes[i - 2].pnl >= 0
            /\ closes[i - 1].pnl < 0
            /\ closes[i].pnl < 0)
           => (~closes[i - 1].trig /\ ~closes[i].trig)

C2_Witness ==
    /\ pause_after_losses = 3
    /\ Len(closes) = 3
    /\ closes[1].pnl = 0 /\ closes[1].day < closes[2].day
    /\ closes[2].pnl < 0
    /\ closes[3].pnl < 0
    /\ rmLast.op = "restart"
    /\ rmState["consecutive_losses"] = 2

\* a close was recorded in the UTC day d
ClosedOn(d) == \E i \in 1..Len(closes) : closes[i].day = d

\* the sum of the pnl of the closes of the UTC day d
RECURSIVE DaySum(_, _)
DaySum(h, d) ==
    IF h = <<>> THEN 0
    ELSE (IF h[Len(h)].day = d THEN h[Len(h)].pnl ELSE 0)
         + DaySum(SubSeq(h, 1, Len(h) - 1), d)

\* C6: get_day_pnl() returns 0 as long as no on_trade_closed has happened in the
\* UTC day of the call, whatever the earlier days accumulated, with no call other
\* than the ensure_day_initialized it performs itself.
C6_DailyReset ==
    (rmLast.op = "get_day_pnl" /\ ~ClosedOn(UtcDay(now))) => rmLast.ret = 0

\* the first call of the new day is get_day_pnl, the day before ended with a loss
C6_Witness ==
    /\ rmLast.op = "get_day_pnl"
    /\ rmLast.reset
    /\ rmLast.ret = 0
    /\ UtcDay(now) = StartDay + 1
    /\ closes # <<>>
    /\ DaySum(closes, StartDay) < 0
    /\ ~ClosedOn(UtcDay(now))

ConsultOps == {"ensure_day_initialized", "get_day_pnl", "on_trade_closed"}

\* C7: day_pnl is reset exactly once per UTC day: a call that runs
\* ensure_day_initialized resets if and only if no such call was made yet in the
\* UTC day of the call (restarts included); a call that does not reset leaves
\* day_start and the P&L recorded that day in place, and no other step changes them.
C7_Step ==
    IF rmLast'.op \in ConsultOps
    THEN /\ rmLast'.reset <=> (UtcDay(now) # consulted)
         /\ rmLast'.reset => rmState'["day_pnl"] = rmLast'.pnl
         /\ ~rmLast'.reset =>
               /\ rmState'["day_start_ts"] = rmState["day_start_ts"]
               /\ rmState'["day_pnl"] = rmState["day_pnl"] + rmLast'.pnl
    ELSE /\ rmState'["day_start_ts"] = rmState["day_start_ts"]
         /\ rmState'["day_pnl"] = rmState["day_pnl"]

C7_ResetOncePerDay == [][C7_Step]_vars

\* the second day: P&L was recorded, the process restarted, and the next call
\* kept it
C7_Witness ==
    /\ UtcDay(now) = StartDay + 1
    /\ rmLast.op = "get_day_pnl"
    /\ ~rmLast.reset
    /\ rmLast.ret # 0
    /\ ClosedOn(StartDay)
    /\ ClosedOn(StartDay + 1)

PersistedFields == {"day_pnl", "consecutive_losses", "paused_until", "shutdown_until"}

\* C8: after any sequence of calls a fresh RiskManager on the same path loads
\* day_pnl, consecutive_losses, paused_until and shutdown_until equal to the
\* values the first instance holds in memory.
C8_RoundTrip ==
    \A k \in PersistedFields :
        /\ k \in DOMAIN load(rmFile)
        /\ k \in DOMAIN rmState
        /\ load(rmFile)[k] = rmState[k]

C8_Witness ==
    /\ rmFile.kind = "json"
    /\ rmLast.op = "on_trade_closed"
    /\ rmLast.trig
    /\ rmState["day_pnl"] # 0
    /\ rmState["consecutive_losses"] > 0
    /\ rmState["paused_until"] > now
    /\ rmState["shutdown_until"] > now
    /\ load(rmFile) = rmState

\* C9: whatever the state file holds (absent, unparseable, or a JSON object
\* lacking some of the five fields), the constructor does not raise, a missing or
\* unparseable file gives the zeroed state, and no later call raises.
C9_LoadFallback ==
    /\ rmLast.exc = "none"
    /\ (rmLast.op = "init" /\ rmFile.kind # "json") => rmState = Zeroed

----------------------------------------------------------------------------
(* Properties of FrequencyGuard *)

\* the record_open calls made less than 3600 seconds before t
OpensInWindow(t) == Cardinality({i \in 1..Len(opens) : t - opens[i] < HourSeconds})

C4_Cooldown ==
    (gLast.op = "allow_new_trade" /\ closedAt # <<>>) =>
        LET t0 == closedAt[1] IN
        /\ (t0 < now /\ now < t0 + cooldown_seconds) => ~gLast.ret
        /\ now >= t0 + cooldown_seconds =>
               (gLast.ret <=> OpensInWindow(now) < max_trades_per_hour)

\* the cooldown alone blocks: no open in the window, a close ten minutes ago
C4_Witness ==
    /\ gLast.op = "allow_new_trade"
    /\ ~gLast.ret
    /\ closedAt # <<>>
    /\ closedAt[1] < now
    /\ now < closedAt[1] + cooldown_seconds
    /\ OpensInWindow(now) = 0
    /\ max_trades_per_hour > 0

\* C5: allow_new_trade() returns true exactly when the opens left after pruning
\* number fewer than max_trades_per_hour and last_close_time is absent or at least
\* cooldown_seconds old; with max_trades_per_hour = 0 it never returns true.
C5_BothBrakes ==
    gLast.op = "allow_new_trade" =>
        /\ gLast.ret <=>
               /\ Len(last_trades) < max_trades_per_hour
               /\ \/ last_close_time = <<>>
                  \/ now - last_close_time[1] >= cooldown_seconds
        /\ max_trades_per_hour = 0 => ~gLast.ret

\* both brakes are armed and both pass
C5_Witness ==
    /\ gLast.op = "allow_new_trade"
    /\ gLast.ret
    /\ max_trades_per_hour = 2
    /\ Len(last_trades) = 1
    /\ cooldown_seconds > 0
    /\ last_close_time # <<>>
    /\ now - last_close_time[1] = cooldown_seconds

----------------------------------------------------------------------------
(* Properties of TradeExecution *)

\* C10: every result of calculate_entry_stop_target with valid = true has
\* risk = |entry_price - stop_loss| > 0 strictly and rr_ratio >= min_rr_ratio, for
\* every direction, entry mode, fractal_level and invalidation_level; every other
\* result is valid = false with a reason and no prices.
C10_ValidPlan ==
    teResult # <<>> =>
        LET r == teResult[1] IN
        IF r.valid
        THEN /\ FLt(Num(0), r.risk)
             /\ r.risk = FAbs(FSub(r.entry_price, r.stop_loss))
             /\ FLe(teCfg.min_rr_ratio, r.rr_ratio)
        ELSE DOMAIN r = {"valid", "reason"}

\* a plan whose stop was widened to the invalidation level, and is valid
C10_Witness ==
    /\ teResult # <<>>
    /\ teResult[1].valid
    /\ teArgs.direction = "short"
    /\ teArgs.invalidation_level # <<>>
    /\ teArgs.fractal_level # <<>>
    /\ FLt(Num(0), teResult[1].atr)
    /\ teResult[1].stop_loss = FAdd(teArgs.invalidation_level[1],
                                    FMul(teResult[1].atr, InvalidationBuffer))

\* C11: without an invalidation level a plan has stop_loss = entry_price -
\* atr*stop_atr_multiplier and target = entry_price + risk*min_rr_ratio when long,
\* stop_loss = entry_price + atr*stop_atr_multiplier and target = entry_price -
\* risk*min_rr_ratio when short, risk = atr*stop_atr_multiplier and rr_ratio equal
\* to min_rr_ratio exactly.
C11_AtrStopTarget ==
    (teResult # <<>> /\ teResult[1].valid /\ teArgs.invalidation_level = <<>>) =>
        LET r == teResult[1]
            stop_distance == FMul(r.atr, teCfg.stop_atr_multiplier)
            gain == FMul(r.risk, teCfg.min_rr_ratio)
        IN /\ r.risk = stop_distance
           /\ r.rr_ratio = teCfg.min_rr_ratio
           /\ IF teArgs.direction = "long"
              THEN /\ r.stop_loss = FSub(r.entry_price, stop_distance)
                   /\ r.target = FAdd(r.entry_price, gain)
              ELSE /\ r.stop_loss = FAdd(r.entry_price, stop_distance)
                   /\ r.target = FSub(r.entry_price, gain)

\* the two stops _calculate_stop_loss chooses between, for the plan returned
AtrStop ==
    LET r == teResult[1]
        stop_distance == FMul(r.atr, teCfg.stop_atr_multiplier)
    IN IF teArgs.direction = "long" THEN FSub(r.entry_price, stop_distance)
       ELSE FAdd(r.entry_price, stop_distance)

InvalidationStop ==
    LET r == teResult[1]
        buffer == FMul(r.atr, InvalidationBuffer)
    IN IF teArgs.direction = "long" THEN FSub(teArgs.invalidation_level[1], buffer)
       ELSE FAdd(teArgs.invalidation_level[1], buffer)

PlanWithInvalidation ==
    teResult # <<>> /\ teResult[1].valid /\ teArgs.invalidation_level # <<>>

\* C12 as stated: with an invalidation level the stop is min(entry_price -
\* atr*stop_atr_multiplier, invalidation_level - 0.2*atr) when long and max(entry_price
\* + atr*stop_atr_multiplier, invalidation_level + 0.2*atr) when short; hence the
\* distance |entry_price - stop_loss| is at least atr*stop_atr_multiplier and the stop
\* lies beyond invalidation_level by at least 0.2*atr in the adverse direction.
C12_StopDistances ==
    PlanWithInvalidation =>
        LET r == teResult[1] IN
        /\ r.stop_loss = IF teArgs.direction = "long" THEN FMin(AtrStop, InvalidationStop)
                         ELSE FMax(AtrStop, InvalidationStop)
        /\ FLe(FMul(r.atr, teCfg.stop_atr_multiplier),
               FAbs(FSub(r.entry_price, r.stop_loss)))
        /\ FLe(FMul(r.atr, InvalidationBuffer),
               IF teArgs.direction = "long"
               THEN FSub(teArgs.invalidation_level[1], r.stop_loss)
               ELSE FSub(r.stop_loss, teArgs.invalidation_level[1]))

\* C12 as amended: with an invalidation level the stop is the min (long) or the max
\* (short) of the two stops, so it is never tighter than the ATR stop entry_price -/+
\* atr*stop_atr_multiplier nor than the invalidation stop invalidation_level -/+
\* 0.2*atr, each as the float arithmetic rounds it.
C12_StopNeverTighter ==
    PlanWithInvalidation =>
        LET r == teResult[1] IN
        IF teArgs.direction = "long"
        THEN /\ r.stop_loss = FMin(AtrStop, InvalidationStop)
             /\ FLe(r.stop_loss, AtrStop)
             /\ FLe(r.stop_loss, InvalidationStop)
        ELSE /\ r.stop_loss = FMax(AtrStop, InvalidationStop)
             /\ FLe(AtrStop, r.stop_loss)
             /\ FLe(InvalidationStop, r.stop_loss)

\* a long plan whose stop was widened from the ATR stop to the invalidation stop
C12_Witness ==
    /\ PlanWithInvalidation
    /\ teArgs.direction = "long"
    /\ teResult[1].stop_loss = InvalidationStop
    /\ FLt(InvalidationStop, AtrStop)

\* C13: with a fractal_level, break_retest enters at fractal_level*1.0005 when long
\* and fractal_level*0.9995 when short (3000 long gives 3001.5), pullback at
\* fractal_level, limit_midpoint at (current_price + fractal_level)/2 with
\* current_price the close of the last candle; with no fractal_level every mode
\* enters at current_price; an entry_mode outside the three names is rejected at
\* construction.
C13_EntryByMode ==
    /\ teBuilt # "new" =>
           (teBuilt = "ValueError"
                <=> teCfg.entry_mode \notin {"break_retest", "pullback", "limit_midpoint"})
    /\ (teResult # <<>> /\ teResult[1].valid) =>
           LET entry_price == teResult[1].entry_price
               current_price == Num(teArgs.candles[Len(teArgs.candles)].close)
               fractal_level == teArgs.fractal_level
           IN IF fractal_level = <<>> THEN entry_price = current_price
              ELSE /\ (teCfg.entry_mode = "break_retest" /\ teArgs.direction = "long")
                        => entry_price = FMul(fractal_level[1], Rat(10005, 10000))
                   /\ (teCfg.entry_mode = "break_retest" /\ teArgs.direction = "short")
                        => entry_price = FMul(fractal_level[1], Rat(9995, 10000))
                   /\ (/\ teCfg.entry_mode = "break_retest"
                       /\ teArgs.direction = "long"
                       /\ fractal_level[1] = Num(3000))
                        => entry_price = Rat(30015, 10)
                   /\ teCfg.entry_mode = "pullback" => entry_price = fractal_level[1]
                   /\ teCfg.entry_mode = "limit_midpoint"
                        => entry_price = FDiv(FAdd(current_price, fractal_level[1]), Num(2))

\* the plan of a long break-and-retest entry on the level 3000
C13_Witness ==
    /\ teResult # <<>>
    /\ teResult[1].valid
    /\ teCfg.entry_mode = "break_retest"
    /\ teArgs.direction = "long"
    /\ teArgs.fractal_level = <<Num(3000)>>
    /\ teResult[1].entry_price = Rat(30015, 10)

\* C14: check_time_stop returns should_exit = true if and only if
\* candles_since_entry >= time_stop_candles and |current_price - entry_price| /
\* entry_price < 0.003; with time_stop_candles = 8 it recommends no exit at 7 or
\* fewer candles whatever the movement, recommends one at 8 candles with a move
\* of 0.1%, and recommends none at any candle count when the move is 0.3% or more.
C14_TimeStop ==
    (tsLast # <<>> /\ tsLast[1].ret # <<>>) =>
        LET c == tsLast[1]
            should_exit == c.ret[1].should_exit
            move == FDiv(FAbs(FSub(Num(c.current_price), Num(c.entry_price))),
                         Num(c.entry_price))
        IN /\ should_exit <=> (/\ c.candles_since_entry >= teCfg.time_stop_candles
                               /\ c.entry_price # 0
                               /\ FLt(move, Rat(3, 1000)))
           /\ (teCfg.time_stop_candles = 8 /\ c.candles_since_entry <= 7) => ~should_exit
           /\ (/\ teCfg.time_stop_candles = 8
               /\ c.candles_since_entry = 8
               /\ c.entry_price > 0
               /\ 1000 * Abs(c.current_price - c.entry_price) = c.entry_price)
              => should_exit
           /\ 1000 * Abs(c.current_price - c.entry_price) >= 3 * c.entry_price
              => ~should_exit

\* the exit recommended at 8 candles after a move of 0.1% from 3000
C14_Witness ==
    /\ tsLast # <<>>
    /\ teCfg.time_stop_candles = 8
    /\ tsLast[1].candles_since_entry = 8
    /\ tsLast[1].entry_price = 3000
    /\ tsLast[1].current_price = 3003
    /\ tsLast[1].ret = <<[should_exit |-> TRUE, exit_type |-> "time_stop"]>>

\* C15: when the loop evaluates the daily-loss check with start_equity > 0 it
\* calls shutdown_for(shutdown_duration_hours * 3600) if and only if
\* day_pnl <= -daily_loss_limit_pct * start_equity; with daily_loss_limit_pct =
\* 0.06 and start_equity = 10000 a day_pnl of -600 triggers it, -600.01 triggers
\* it and -599.99 does not.
C15_DailyLossShutdown ==
    (lossCheck # <<>> /\ FLt(Zero, starting_equity)) =>
        LET c == lossCheck[1]
            limit == FNeg(FMul(settings.daily_loss_limit_pct, starting_equity))
        IN /\ c.shutdown <=> FLe(c.day_pnl, limit)
           /\ c.shutdown <=> rmLast.op = "shutdown_for"
           /\ c.shutdown =>
                  /\ rmState["shutdown_until"]
                         = now + settings.shutdown_duration_hours * 3600
                  /\ rmFile = save(rmState)
           /\ ~c.shutdown => rmState["shutdown_until"] = 0
           /\ (/\ settings.daily_loss_limit_pct = Rat(6, 100)
               /\ starting_equity = Num(10000))
              => /\ c.day_pnl = Num(-600) => c.shutdown
                 /\ c.day_pnl = Rat(-60001, 100) => c.shutdown
                 /\ c.day_pnl = Rat(-59999, 100) => ~c.shutdown

\* the shutdown at a day_pnl of exactly -600 on 0.06 of 10000
C15_Witness ==
    /\ lossCheck # <<>>
    /\ settings.daily_loss_limit_pct = Rat(6, 100)
    /\ starting_equity = Num(10000)
    /\ lossCheck[1].day_pnl = Num(-600)
    /\ lossCheck[1].shutdown
    /\ is_shutdown(rmState, now)

\* C16: after on_position_opened(side, entry_price, timestamp), for every
\* timestamp (0 included) and from either state, the tracker is in Tracking:
\* get_status() reports has_position = true with the given side and entry_price
\* and candles_held = 0, and the next on_new_candle increments the counter.
C16_OpenTransition ==
    /\ ptLast.op = "on_position_opened" =>
           LET status == get_status(max_candles_5m, position_entry_time,
                                    position_entry_candle_count, position_side,
                                    position_entry_price)
           IN /\ status.has_position
              /\ status.side = ptOpened[1].side
              /\ status.entry_price = Num(ptOpened[1].entry_price)
              /\ status.candles_held = 0
    /\ (ptOpened # <<>> /\ ptLast.op = "on_new_candle" /\ ptCandles = 1) =>
           position_entry_candle_count = 1

\* C17: on_new_candle and get_status never change whether the tracker is in
\* NoPosition or Tracking, and on_new_candle called in NoPosition returns none
\* and leaves entry time, entry price, side and candle counter unchanged, for
\* any number of calls.
C17_NoOtherTransitions ==
    [][ptLast'.op \in {"on_new_candle", "get_status"} =>
          /\ position_entry_time' = position_entry_time
          /\ position_side' = position_side
          /\ position_entry_price' = position_entry_price
          /\ get_status(max_candles_5m, position_entry_time', position_entry_candle_count',
                        position_side', position_entry_price').has_position
             = get_status(max_candles_5m, position_entry_time, position_entry_candle_count,
                          position_side, position_entry_price).has_position
          /\ ptLast'.op = "get_status" =>
                 position_entry_candle_count' = position_entry_candle_count
          /\ (ptLast'.op = "on_new_candle" /\ ptOpened = <<>>) =>
                 /\ ptLast'.ret = <<>>
                 /\ position_entry_candle_count' = position_entry_candle_count
      ]_vars

\* the second candle in a row handed to a tracker whose position was closed
C17_Witness ==
    /\ ptLast.op = "on_new_candle"
    /\ ptOpened = <<>>
    /\ ptClosed # <<>>
    /\ ptCandles = 2
    /\ ptLast.ret = <<>>
    /\ position_entry_time = <<>>
    /\ position_entry_candle_count = 0

\* C18: while Tracking, the k-th on_new_candle call since the last
\* on_position_opened sets candles_held to exactly k, returns none when
\* k < max_candles, and for every k >= max_candles returns an exit
\* recommendation whose candles_held is k and whose price_change_pct is
\* |close - entry_price| / entry_price (0 when entry_price is 0), on every later
\* candle too, until the position is closed or re-opened.
C18_Counting ==
    (ptOpened # <<>> /\ ptLast.op = "on_new_candle") =>
        /\ position_entry_candle_count = ptCandles
        /\ ptCandles < max_candles_5m => ptLast.ret = <<>>
        /\ ptCandles >= max_candles_5m =>
               /\ ptLast.ret # <<>>
               /\ ptLast.ret[1].should_exit
               /\ ptLast.ret[1].candles_held = ptCandles
               /\ ptOpened[1].entry_price = 0 => ptLast.ret[1].price_change_pct = Zero
               /\ ptOpened[1].entry_price # 0 =>
                      ptLast.ret[1].price_change_pct
                          = FDiv(Num(Abs(ptLast.close - ptOpened[1].entry_price)),
                                 Num(ptOpened[1].entry_price))

\* C19: on_position_closed() from any state leaves the tracker in NoPosition
\* with entry time, side and entry price absent and the candle counter 0; it is
\* idempotent, and a position opened afterwards starts counting from 0 however
\* many candles the previous position accumulated.
C19_CloseTransition ==
    /\ ptLast.op = "on_position_closed" =>
           /\ position_entry_time = <<>>
           /\ position_side = <<>>
           /\ position_entry_price = <<>>
           /\ position_entry_candle_count = 0
           /\ get_status(max_candles_5m, position_entry_time, position_entry_candle_count,
                         position_side, position_entry_price) = [has_position |-> FALSE]
           /\ on_position_closed(Self) = Self
    /\ ptLast.op = "on_position_opened" => position_entry_candle_count = 0

\* a position opened after one that was closed with two candles counted
C19_Witness ==
    /\ ptLast.op = "on_position_opened"
    /\ ptClosed = <<2>>
    /\ position_entry_candle_count = 0
    /\ position_entry_time = <<1700000000>>

\* C20: is_paused() is true exactly when now < paused_until and is_shutdown()
\* exactly when now < shutdown_until, both false at now equal to the deadline,
\* and neither call changes a RiskState field, the day counters or the
\* persisted file.
C20_PureTimeChecks ==
    [][rmLast'.op \in {"is_paused", "is_shutdown"} =>
          LET deadline == IF rmLast'.op = "is_paused"
                          THEN Get(rmState, "paused_until", 0)
                          ELSE Get(rmState, "shutdown_until", 0)
          IN /\ rmLast'.exc = "none"
             /\ rmLast'.ret <=> now < deadline
             /\ now = deadline => ~rmLast'.ret
             /\ rmState' = rmState
             /\ rmFile' = rmFile
             /\ now' = now
      ]_vars

\* is_paused() answering false at the very second the pause ends
C20_Witness ==
    /\ rmLast.op = "is_paused"
    /\ "paused_until" \in DOMAIN rmState
    /\ rmState["paused_until"] = now
    /\ rmLast.ret = FALSE

\* is_shutdown() answering false at the very second the shutdown ends
C20_WitnessShutdown ==
    /\ rmLast.op = "is_shutdown"
    /\ "shutdown_until" \in DOMAIN rmState
    /\ rmState["shutdown_until"] = now
    /\ rmLast.ret = FALSE

\* C21: shutdown_until is changed only by shutdown_for: on_trade_closed (for any
\* pnl, however large the day's loss, whether or not it triggers a pause),
\* pause_for, ensure_day_initialized and get_day_pnl leave it unchanged.
C21_NoSelfShutdown ==
    [][rmLast'.op # "shutdown_for" =>
          Get(rmState', "shutdown_until", 0) = Get(rmState, "shutdown_until", 0)
      ]_vars

\* a close that triggers the pause on a day of three losses, and no shutdown
C21_Witness ==
    /\ rmLast.op = "on_trade_closed"
    /\ rmLast.trig
    /\ rmState["day_pnl"] = -6
    /\ rmState["paused_until"] > now
    /\ rmState["shutdown_until"] = 0

\* the UTC days whose start the code stamps as the stored day_start
StampedDays ==
    {d \in 0..(EndTime \div DaySeconds) :
         midnight_utc_ts(d * DaySeconds, tz) = Get(rmState, "day_start_ts", 0)}

\* C22: in every reachable state day_pnl is the sum of the pnl arguments of the
\* on_trade_closed calls made in the UTC day that day_start stands for (a close
\* is added to the total of the day in which it occurs, never to the day
\* before), and each on_trade_closed returns the updated day_pnl, the updated
\* consecutive_losses and triggered_pause = (updated consecutive_losses >=
\* pause_after_losses).
C22_DayPnlAccounting ==
    /\ \A d \in StampedDays : Get(rmState, "day_pnl", 0) = DaySum(closes, d)
    /\ StampedDays = {} => (Get(rmState, "day_pnl", 0) = 0 /\ closes = <<>>)
    /\ (rmLast.op = "on_trade_closed" /\ rmLast.exc = "none") =>
           /\ UtcDay(now) \in StampedDays
           /\ rmLast.ret = DaySum(closes, UtcDay(now))
           /\ rmLast.ret = rmState["day_pnl"]
           /\ rmLast.losses = TrailingLosses(closes)
           /\ rmLast.losses = rmState["consecutive_losses"]
           /\ rmLast.trig <=> (rmLast.losses >= pause_after_losses)

\* the first close of a day, after a day that ended with a loss: only its own
\* pnl is in the total
C22_Witness ==
    /\ rmLast.op = "on_trade_closed"
    /\ rmLast.reset
    /\ Len(closes) = 2
    /\ closes[1].day = StartDay
    /\ closes[1].pnl = -2
    /\ closes[2].day = StartDay + 1
    /\ closes[2].pnl = 1
    /\ rmLast.ret = 1
    /\ rmState["day_pnl"] = 1

\* C23: after ensure_day_initialized at time now, day_start is the epoch
\* timestamp of the most recent UTC midnight: day_start <= now < day_start +
\* 86400 and day_start is a whole multiple of 86400, for every local-timezone
\* offset of the host.
C23_UtcMidnight ==
    (rmLast.op \in {"ensure_day_initialized", "get_day_pnl", "on_trade_closed"}
        /\ rmLast.exc = "none") =>
        LET day_start == rmState["day_start_ts"]
        IN /\ day_start <= now
           /\ now < day_start + 86400
           /\ day_start % 86400 = 0

\* C24: allow_new_trade() at time now removes from open_timestamps exactly the
\* entries older than 3600 seconds (now - t > 3600) and keeps every other entry
\* in its order (an entry exactly 3600 seconds old is kept and counts toward
\* the cap); it changes neither last_close_time nor adds an entry, so a repeated
\* call at the same instant returns the same result.
C24_SlidingWindow ==
    [][gLast'.op = "allow_new_trade" =>
          /\ last_trades' = SelectSeq(last_trades, LAMBDA t : now - t <= 3600)
          /\ last_close_time' = last_close_time
          /\ allow_new_trade(last_trades', last_close_time', now',
                             max_trades_per_hour, cooldown_seconds)
                 = [last_trades |-> last_trades', ret |-> gLast'.ret]
      ]_vars

\* the entries of open_timestamps at most 3600 seconds old
InWindow == {i \in 1..Len(last_trades) : now - last_trades[i] <= 3600}

\* C25: record_open() always appends the current time, also when
\* allow_new_trade() would return false; but if record_open is called only
\* right after an allow_new_trade() that returned true, the number of
\* open_timestamps inside the trailing 60 minutes is at most max_trades_per_hour
\* in every reachable state.
C25_AdvisoryCap ==
    /\ gLast.op = "record_open" =>
           /\ last_trades # <<>>
           /\ last_trades[Len(last_trades)] = now
           /\ opens # <<>>
           /\ opens[Len(opens)] = now
    /\ advised => /\ Cardinality(InWindow) <= max_trades_per_hour
                  /\ OpensInWindow(now) <= max_trades_per_hour

\* the second advised open inside the hour under a cap of 2
C25_Witness ==
    /\ advised
    /\ gLast.op = "record_open"
    /\ max_trades_per_hour = 2
    /\ Cardinality(InWindow) = 2
    /\ Len(opens) = 3

InsufficientData == "Insufficient data for execution calculation"

\* C26: calculate_entry_stop_target returns valid = false with a reason, and
\* reads no candle, whenever len(candles) < atr_period (the empty list
\* included); it never rejects for insufficient data when
\* len(candles) >= atr_period.
C26_InsufficientData ==
    teResult # <<>> =>
        LET r == teResult[1] IN
        IF Len(teArgs.candles) < teCfg.atr_period
        THEN r = [valid |-> FALSE, reason |-> InsufficientData]
        ELSE r.valid \/ r.reason # InsufficientData

\* the planner is called with no candle at all
C26_Witness ==
    /\ teResult # <<>>
    /\ teArgs.candles = <<>>
    /\ ~teResult[1].valid
    /\ teResult[1].reason = InsufficientData

\* max(high - low, |high - prev_close|, |low - prev_close|) of bar i, in whole
\* dollars; high - low for a bar with no candle before it
TrueRange(candles, i) ==
    LET hl == candles[i].high - candles[i].low IN
    IF i = 1 THEN hl
    ELSE LET hc == Abs(candles[i].high - candles[i - 1].close)
             lc == Abs(candles[i].low - candles[i - 1].close)
             m == IF hl >= hc THEN hl ELSE hc
         IN IF m >= lc THEN m ELSE lc

RECURSIVE SumTrueRange(_, _, _)
\* the true ranges of the bars from..to, added up
SumTrueRange(candles, from, to) ==
    IF from > to THEN 0 ELSE TrueRange(candles, to) + SumTrueRange(candles, from, to - 1)

\* C27: for every candle sequence of at least atr_period candles the atr of the
\* plan is the simple mean of the true range over the most recent atr_period
\* bars; a bar's true range is high - low only when the input has no candle
\* before it, which for an averaged bar means exactly atr_period candles.
C27_Atr ==
    LET n == Len(teArgs.candles)
        period == teCfg.atr_period
        mean == FDiv(Num(SumTrueRange(teArgs.candles, n - period + 1, n)), Num(period))
    IN /\ (teResult # <<>> /\ teResult[1].valid) => (n >= period /\ teResult[1].atr = mean)
       /\ (teResult # <<>> /\ n >= period) => calculate_current_atr(teCfg, teArgs.candles) = mean

\* more candles than atr_period, and the first averaged bar gaps up from the
\* close before it: its true range is 40 where high - low is 20
C27_Witness ==
    /\ teResult # <<>>
    /\ teResult[1].valid
    /\ teCfg.atr_period = 3
    /\ Len(teArgs.candles) = 4
    /\ teArgs.candles[1].close = 3000
    /\ teArgs.candles[2].high = 3040
    /\ TrueRange(teArgs.candles, 2) = 40

\* C28: get_status() changes nothing and agrees with the counter: in
\* NoPosition it reports only has_position = false; in Tracking it reports the
\* side, the entry price, candles_held = the number of on_new_candle calls since
\* the open and candles_remaining = max(0, max_candles - candles_held), which is
\* never negative and is 0 exactly from the candle at which on_new_candle starts
\* to return an exit recommendation.
C28_Status ==
    [][ptLast'.op = "get_status" =>
          /\ UNCHANGED <<max_candles_5m, position_entry_time, position_entry_candle_count,
                         position_side, position_entry_price>>
          /\ LET status == ptLast'.ret[1]
                 left == max_candles_5m - ptCandles
             IN IF ptOpened = <<>>
                THEN status = [has_position |-> FALSE]
                ELSE /\ status.has_position
                     /\ status.side = ptOpened[1].side
                     /\ status.entry_price = Num(ptOpened[1].entry_price)
                     /\ status.candles_held = ptCandles
                     /\ status.candles_remaining = IF left > 0 THEN left ELSE 0
                     /\ status.candles_remaining >= 0
                     /\ status.candles_remaining = 0 <=> ptCandles >= max_candles_5m
      ]_vars

-----------------------------------------------------------------------------
(* The process: a RiskManager on a state file and a FrequencyGuard, both
   constructed anew when the process restarts *)

ProcessInit ==
    /\ now = StartTime
    /\ tz = 0
    /\ pause_after_losses = 3
    /\ pause_duration_sec = 24 * HourSeconds
    /\ rmFile = NoFile
    /\ rmState = load(rmFile)
    /\ rmLast = NoCall("init")
    /\ closes = <<>>
    /\ consulted = -1
    /\ max_trades_per_hour \in MaxTrades
    /\ cooldown_seconds = 20 * MinuteSeconds
    /\ last_trades = <<>>
    /\ last_close_time = <<>>
    /\ gLast = [op |-> "init", ret |-> FALSE]
    /\ opens = <<>>
    /\ closedAt = <<>>
    /\ advised = TRUE
    \* the planner is constructed and never called
    /\ teBuilt = "ready"
    /\ teCfg = DefaultExecution
    /\ teArgs = NoArguments
    /\ teResult = <<>>
    \* no stagnation check is made
    /\ tsLast = <<>>
    \* the loop does not reach its daily-loss check
    /\ settings = DefaultSettings
    /\ starting_equity = Zero
    /\ lossCheck = <<>>
    \* the tracker is constructed and never called
    /\ max_candles_5m = 10
    /\ position_entry_time = <<>>
    /\ position_entry_candle_count = 0
    /\ position_side = <<>>
    /\ position_entry_price = <<>>
    /\ ptLast = NoTrackerCall
    /\ ptOpened = <<>>
    /\ ptCandles = 0
    /\ ptClosed = <<>>
    /\ exPosition = "flat"
    /\ placed = <<>>
    /\ exClosed = <<>>
    /\ rate_limit_backoff = BackoffStart
    /\ fetched = "init"

\* the process ends and a new one constructs RiskManager() on the same state
\* path and a FrequencyGuard with the same settings
ProcessRestart ==
    /\ rmState' = load(rmFile)
    /\ rmLast' = NoCall("restart")
    /\ last_trades' = <<>>
    /\ last_close_time' = <<>>
    /\ gLast' = [op |-> "init", ret |-> FALSE]
    /\ UNCHANGED <<now, tz, pause_after_losses, pause_duration_sec, rmFile, closes, consulted>>
    /\ UNCHANGED <<max_trades_per_hour, cooldown_seconds, opens, closedAt, advised>>
    /\ UNCHANGED <<execVars, stopVars, loopVars, trackerVars, runVars>>

ProcessNext ==
    \/ Tick
    \/ IsPaused
    \/ IsShutdown
    \/ PauseFor
    \/ ShutdownFor
    \/ AllowNewTrade
    \/ RecordOpen
    \/ RecordClose
    \/ ProcessRestart

SpecProcess == ProcessInit /\ [][ProcessNext]_vars

\* the calls is_paused() and is_shutdown() can be made at
CallTimes == {StartTime + h * HourSeconds : h \in 0..(2 * MaxHours)}

\* C29: after a restart the new FrequencyGuard has no open timestamps and no
\* last close time, so allow_new_trade() returns true when
\* max_trades_per_hour > 0, whatever was recorded before the restart; the new
\* RiskManager on the same path reports is_paused() and is_shutdown() true until
\* the deadlines set before the restart.
C29_RestartAsymmetry ==
    [][(rmLast'.op = "restart" /\ gLast'.op = "init") =>
          /\ last_trades' = <<>>
          /\ last_close_time' = <<>>
          /\ max_trades_per_hour > 0 =>
                 allow_new_trade(last_trades', last_close_time', now',
                                 max_trades_per_hour, cooldown_seconds).ret
          /\ \A t \in CallTimes :
                 /\ is_paused(rmState', t) <=> t < Get(rmState, "paused_until", 0)
                 /\ is_shutdown(rmState', t) <=> t < Get(rmState, "shutdown_until", 0)
      ]_vars

\* a restart under a pause and a shutdown, with the cap reached and the
\* cooldown running, and allow_new_trade() of the new guard returns true
C29_Witness ==
    /\ rmLast.op = "restart"
    /\ is_paused(rmState, now)
    /\ is_shutdown(rmState, now)
    /\ gLast.op = "allow_new_trade"
    /\ gLast.ret
    /\ max_trades_per_hour > 0
    /\ OpensInWindow(now) >= max_trades_per_hour
    /\ closedAt # <<>>
    /\ now - closedAt[1] < cooldown_seconds

-----------------------------------------------------------------------------
(* run_live_async: one action per way through an iteration of the polling
   loop.  The call records and the history of closes of the single-object
   specifications are not kept here. *)

RunEndTime == StartTime + MaxRunMinutes * MinuteSeconds

\* the sleeps of the loop, in seconds
IdleSleep == 600
ScanSleep == 300
CooldownPoll == 60
FlipSleep == 5
SettleSleep == 1

RunInit ==
    /\ now = StartTime
    /\ tz = 0
    /\ pause_after_losses \in {1, 2}
    /\ pause_duration_sec = HourSeconds
    /\ rmFile = NoFile
    /\ rmState = load(rmFile)
    /\ rmLast = NoCall("init")
    /\ closes = <<>>
    /\ consulted = -1
    /\ max_trades_per_hour = 2
    /\ cooldown_seconds = 10 * MinuteSeconds
    /\ last_trades = <<>>
    /\ last_close_time = <<>>
    /\ gLast = [op |-> "init", ret |-> FALSE]
    /\ opens = <<>>
    /\ closedAt = <<>>
    /\ advised = TRUE
    \* the planner is constructed and never called
    /\ teBuilt = "ready"
    /\ teCfg = DefaultExecution
    /\ teArgs = NoArguments
    /\ teResult = <<>>
    \* no stagnation check is made
    /\ tsLast = <<>>
    \* a loss of 3 dollars is the day's limit
    /\ settings = [daily_loss_limit_pct |-> Rat(6, 100), shutdown_duration_hours |-> 1]
    /\ starting_equity = Num(50)
    /\ lossCheck = <<>>
    \* the tracker is constructed and never called
    /\ max_candles_5m = 10
    /\ position_entry_time = <<>>
    /\ position_entry_candle_count = 0
    /\ position_side = <<>>
    /\ position_entry_price = <<>>
    /\ ptLast = NoTrackerCall
    /\ ptOpened = <<>>
    /\ ptCandles = 0
    /\ ptClosed = <<>>
    /\ exPosition = "flat"
    /\ placed = <<>>
    /\ exClosed = <<>>
    /\ rate_limit_backoff = BackoffStart
    /\ fetched = "init"

\* what no iteration changes
runFixed == <<tz, pause_after_losses, pause_duration_sec, rmLast, closes, consulted,
              max_trades_per_hour, cooldown_seconds, gLast, execVars, stopVars,
              loopVars, trackerVars>>

\* "Respect pause/shutdown windows": the iteration goes on past the two tests
Trading == now < RunEndTime /\ ~is_shutdown(rmState, now) /\ ~is_paused(rmState, now)

\* "if not current_position and not guard.allow_new_trade()": the guard is asked
\* only when there is no position
Asked ==
    IF exPosition = "flat"
    THEN allow_new_trade(last_trades, last_close_time, now, max_trades_per_hour,
                         cooldown_seconds)
    ELSE [last_trades |-> last_trades, ret |-> TRUE]

\* "After any close, check daily loss vs limit and trigger shutdown if exceeded"
DailyLoss(st, fl, t) ==
    LET g == get_day_pnl(st, fl, t, tz)
        reached == max_daily_loss_reached(Num(g.ret), starting_equity,
                                          settings.daily_loss_limit_pct)
        o == IF reached
             THEN shutdown_for(g.st, g.fl, t, settings.shutdown_duration_hours * HourSeconds)
             ELSE g
    IN [st |-> o.st, fl |-> o.fl, shutdown |-> reached]

\* a close of the loop: the branch that made it and the number of
\* risk_manager.on_trade_closed and guard.record_close calls that followed it
\* in the iteration
Closed(by, reported, recorded) ==
    [by |-> by, on_trade_closed |-> reported, record_close |-> recorded]

\* mutant: the backoff doubles without a cap
next_backoff_uncapped(backoff) == backoff * 2

\* min(rate_limit_backoff * 2, 600)
next_backoff(backoff) == IF backoff * 2 < BackoffCap THEN backoff * 2 ELSE BackoffCap

\* fetch_ohlcv, ex.account() or ex.positions() raises a rate-limit error
RunRateLimited ==
    /\ now < RunEndTime
    /\ now' = now + rate_limit_backoff
    /\ rate_limit_backoff' = next_backoff(rate_limit_backoff)
    /\ fetched' = "rate_limit"
    /\ UNCHANGED <<rmState, rmFile, last_trades, last_close_time, opens, closedAt, advised,
                   exPosition, placed, exClosed>>
    /\ UNCHANGED runFixed

\* they raise another error
RunError ==
    /\ now < RunEndTime
    /\ now' = now + ScanSleep
    /\ UNCHANGED <<rmState, rmFile, last_trades, last_close_time, opens, closedAt, advised,
                   exPosition, placed, exClosed, rate_limit_backoff>>
    /\ fetched' = "error"
    /\ UNCHANGED runFixed

\* paper mode: ex.check_liquidation(price) liquidates the position
RunLiquidated ==
    /\ now < RunEndTime
    /\ exPosition # "flat"
    /\ exPosition' = "flat"
    /\ exClosed' = <<Closed("liquidation", 0, 0)>>
    /\ now' = now + ScanSleep
    /\ rate_limit_backoff' = BackoffStart
    /\ fetched' = "ok"
    /\ UNCHANGED <<rmState, rmFile, last_trades, last_close_time, opens, closedAt, advised,
                   placed>>
    /\ UNCHANGED runFixed

\* the bot is in its shutdown or pause window: sleep 10 minutes
RunIdle ==
    /\ now < RunEndTime
    /\ is_shutdown(rmState, now) \/ is_paused(rmState, now)
    /\ now' = now + IdleSleep
    /\ UNCHANGED <<rmState, rmFile, last_trades, last_close_time, opens, closedAt, advised,
                   exPosition, placed, exClosed>>
    /\ rate_limit_backoff' = BackoffStart
    /\ fetched' = "ok"
    /\ UNCHANGED runFixed

\* no position and the guard refuses: ask again in a minute
RunCooldown ==
    /\ Trading
    /\ ~Asked.ret
    /\ last_trades' = Asked.last_trades
    /\ now' = now + CooldownPoll
    /\ UNCHANGED <<rmState, rmFile, last_close_time, opens, closedAt, advised,
                   exPosition, placed, exClosed>>
    /\ rate_limit_backoff' = BackoffStart
    /\ fetched' = "ok"
    /\ UNCHANGED runFixed

\* signal flat, no position
RunStayFlat ==
    /\ Trading
    /\ exPosition = "flat"
    /\ Asked.ret
    /\ last_trades' = Asked.last_trades
    /\ now' = now + ScanSleep
    /\ UNCHANGED <<rmState, rmFile, last_close_time, opens, closedAt, advised,
                   exPosition, placed, exClosed>>
    /\ rate_limit_backoff' = BackoffStart
    /\ fetched' = "ok"
    /\ UNCHANGED runFixed

\* signal flat with a position: it is closed and the close is booked
RunClose ==
    /\ Trading
    /\ exPosition # "flat"
    /\ \E pnl \in Pnls :
          LET o == on_trade_closed(rmState, rmFile, now, tz, pnl, pause_after_losses,
                                   pause_duration_sec)
          IN /\ o.exc = "none"
             /\ rmState' = o.st
             /\ rmFile' = o.fl
    /\ last_close_time' = record_close(now)
    /\ closedAt' = <<now>>
    /\ exPosition' = "flat"
    /\ exClosed' = <<Closed("flat", 1, 1)>>
    /\ now' = now + ScanSleep
    /\ UNCHANGED <<last_trades, opens, advised, placed>>
    /\ rate_limit_backoff' = BackoffStart
    /\ fetched' = "ok"
    /\ UNCHANGED runFixed

\* the signal is the side of the position held
RunHold ==
    /\ Trading
    /\ exPosition # "flat"
    /\ now' = now + ScanSleep
    /\ UNCHANGED <<rmState, rmFile, last_trades, last_close_time, opens, closedAt, advised,
                   exPosition, placed, exClosed>>
    /\ rate_limit_backoff' = BackoffStart
    /\ fetched' = "ok"
    /\ UNCHANGED runFixed

\* "Open new position": the market order at time t with the risk state st on
\* file fl, the guard's record a second later, the daily-loss check and the
\* sleep that ends the iteration
Open(side, st, fl, lt, lct, t, had_position) ==
    LET settled == t + SettleSleep
        lt1 == record_open(lt, settled)
        d == DailyLoss(st, fl, settled)
        a == allow_new_trade(lt1, lct, settled, max_trades_per_hour, cooldown_seconds)
    IN /\ placed' = <<[t |-> t, side |-> side, flip |-> had_position,
                       paused |-> is_paused(st, t), shutdown |-> is_shutdown(st, t),
                       allowed |-> ~had_position, last_close |-> lct,
                       breached |-> /\ max_daily_loss_reached(
                                           Num(Get(st, "day_pnl", 0)), starting_equity,
                                           settings.daily_loss_limit_pct)
                                    /\ Get(st, "shutdown_until", 0) = 0]>>
       /\ opens' = Append(opens, settled)
       /\ advised' = (advised /\ ~had_position)
       /\ rmState' = d.st
       /\ rmFile' = d.fl
       /\ last_close_time' = lct
       /\ exPosition' = IF d.shutdown THEN "flat" ELSE side
       /\ exClosed' = IF d.shutdown THEN <<Closed("shutdown", 0, 0)>>
                      ELSE IF had_position THEN <<Closed("flip", 1, 1)>>
                      ELSE exClosed
       /\ last_trades' = IF d.shutdown \/ had_position THEN lt1 ELSE a.last_trades
       /\ now' = settled + (IF d.shutdown THEN IdleSleep
                            ELSE IF had_position THEN ScanSleep
                            ELSE IF a.ret THEN ScanSleep
                            ELSE cooldown_seconds)

\* a signal with no position: the order is placed
RunOpen ==
    /\ Trading
    /\ exPosition = "flat"
    /\ Asked.ret
    /\ \E side \in Sides :
          Open(side, rmState, rmFile, Asked.last_trades, last_close_time, now, FALSE)
    /\ UNCHANGED closedAt
    /\ rate_limit_backoff' = BackoffStart
    /\ fetched' = "ok"
    /\ UNCHANGED runFixed

\* a signal against the position held: "Close opposite position before opening
\* new", then the order
RunFlip ==
    /\ Trading
    /\ exPosition # "flat"
    /\ \E pnl \in Pnls :
          LET o == on_trade_closed(rmState, rmFile, now, tz, pnl, pause_after_losses,
                                   pause_duration_sec)
              side == IF exPosition = "long" THEN "short" ELSE "long"
          IN /\ o.exc = "none"
             /\ Open(side, o.st, o.fl, last_trades, record_close(now), now + FlipSleep, TRUE)
    /\ closedAt' = <<now>>
    /\ rate_limit_backoff' = BackoffStart
    /\ fetched' = "ok"
    /\ UNCHANGED runFixed

RunNext ==
    \/ RunLiquidated
    \/ RunIdle
    \/ RunCooldown
    \/ RunStayFlat
    \/ RunClose
    \/ RunHold
    \/ RunOpen
    \/ RunFlip

SpecRun == RunInit /\ [][RunNext]_vars

\* the fetches of the loop's first lines fail or succeed; a cycle that gets
\* past them holds, stays flat or opens
FetchNext ==
    \/ RunRateLimited
    \/ RunError
    \/ RunStayFlat
    \/ RunHold
    \/ RunOpen

SpecFetch == RunInit /\ [][FetchNext]_vars

\* C30: no market order that opens a position is placed at a moment when
\* now < paused_until or now < shutdown_until, also not in a cycle whose own
\* close of the opposite position has just triggered a loss-streak pause.
C30_NoOrderWhilePaused ==
    placed # <<>> => (~placed[1].paused /\ ~placed[1].shutdown)

\* C31: every position run_live_async opens is opened in a cycle in which
\* allow_new_trade() returned true: none is opened less than
\* cooldown_minutes * 60 seconds after the most recent record_close(), and no
\* more than max_trades_per_hour are opened in any 60 minutes, also when the
\* open follows the close of the opposite position in the same cycle.
C31_AdmissionControl ==
    /\ placed # <<>> =>
           /\ placed[1].allowed
           /\ \/ placed[1].last_close = <<>>
              \/ placed[1].t - placed[1].last_close[1] >= cooldown_seconds
    /\ \A i \in 1..Len(opens) :
           Cardinality({j \in 1..i : opens[i] - opens[j] < HourSeconds}) <= max_trades_per_hour

\* C32: each close of a position by run_live_async (on a flat signal, of the
\* opposite side before a flip, forced by the daily-loss shutdown, paper-mode
\* liquidation) is followed in the same cycle by exactly one
\* risk_manager.on_trade_closed call with the realized P&L and exactly one
\* guard.record_close call.
C32_EveryCloseReported ==
    exClosed # <<>> =>
        (exClosed[1].on_trade_closed = 1 /\ exClosed[1].record_close = 1)

\* C33: whenever a close booked through on_trade_closed brings day_pnl to or
\* below -daily_loss_limit_pct * start_equity, run_live_async calls
\* shutdown_for before it places any further order that opens a position,
\* whichever branch of the cycle made the close.
C33_ShutdownOnBreach ==
    placed # <<>> => ~placed[1].breached

\* C35: the rate-limit backoff starts at 60 seconds, doubles after each
\* consecutive rate-limit error (60, 120, 240, 480, 600, 600, ...), is never
\* above 600 and never below 60, is 60 again after any successful fetch, and a
\* rate-limit error changes no guard or risk state; another error waits 300
\* seconds and leaves the backoff as it is.
C35_Backoff ==
    [][/\ rate_limit_backoff' >= 60
       /\ rate_limit_backoff' <= 600
       /\ fetched' = "ok" => rate_limit_backoff' = 60
       /\ fetched' = "rate_limit" =>
              /\ now' = now + rate_limit_backoff
              /\ rate_limit_backoff' = IF rate_limit_backoff >= 300 THEN 600
                                       ELSE 2 * rate_limit_backoff
              /\ UNCHANGED <<rmState, rmFile, last_trades, last_close_time, exPosition>>
       /\ fetched' = "error" =>
              /\ now' = now + 300
              /\ UNCHANGED <<rate_limit_backoff, rmState, rmFile, last_trades,
                             last_close_time, exPosition>>
      ]_vars

\* five rate-limit errors in a row from the start: waits of 60, 120, 240, 480
\* and 600 seconds, and the next wait is 600 again
C35_Witness ==
    /\ fetched = "rate_limit"
    /\ rate_limit_backoff = 600
    /\ now = StartTime + 60 + 120 + 240 + 480 + 600

-----------------------------------------------------------------------------
(* A RiskManager whose process can stop in the middle of a call *)

\* the dicts a call hands to _save, in the order of the _save calls
Saves(call, st, t, offset, pnl, n, dur) ==
    LET e == ensure_day_initialized(st, NoFile, t, offset)
        day == IF e.reset THEN <<e.st>> ELSE <<>>
    IN IF call = "ensure_day_initialized" THEN day
       ELSE IF call = "pause_for" THEN <<pause_for(st, NoFile, t, dur).st>>
       ELSE IF call = "shutdown_for" THEN <<shutdown_for(st, NoFile, t, dur).st>>
       ELSE LET s1 == Put(e.st, "day_pnl", Get(e.st, "day_pnl", 0) + pnl)
                s2 == Put(s1, "consecutive_losses",
                          IF pnl < 0 THEN Get(s1, "consecutive_losses", 0) + 1 ELSE 0)
            IN day \o <<s2>> \o (IF s2["consecutive_losses"] >= n
                                 THEN <<pause_for(s2, NoFile, t, dur).st>> ELSE <<>>)

RECURSIVE FilesDuring(_, _)
\* what the state file can hold while the _save calls run: open(path, "w")
\* empties it, json.dump fills it, and until the dump is complete json.load
\* cannot parse it
FilesDuring(fl, saves) ==
    IF saves = <<>> THEN <<fl>>
    ELSE <<fl, CorruptFile>> \o FilesDuring(save(saves[1]), Tail(saves))

CrashInit ==
    /\ now = StartTime
    /\ tz = 0
    /\ pause_after_losses = 2
    /\ pause_duration_sec = 12 * HourSeconds
    /\ rmFile = NoFile
    /\ rmState = load(rmFile)
    /\ rmLast = NoCall("init")
    /\ closes = <<>>
    /\ consulted = -1
    \* the guard is constructed and never called
    /\ max_trades_per_hour = 2
    /\ cooldown_seconds = 10 * MinuteSeconds
    /\ last_trades = <<>>
    /\ last_close_time = <<>>
    /\ gLast = [op |-> "init", ret |-> FALSE]
    /\ opens = <<>>
    /\ closedAt = <<>>
    /\ advised = TRUE
    \* the planner is constructed and never called
    /\ teBuilt = "ready"
    /\ teCfg = DefaultExecution
    /\ teArgs = NoArguments
    /\ teResult = <<>>
    \* no stagnation check is made
    /\ tsLast = <<>>
    \* the loop does not reach its daily-loss check
    /\ settings = DefaultSettings
    /\ starting_equity = Zero
    /\ lossCheck = <<>>
    \* the tracker is constructed and never called
    /\ max_candles_5m = 10
    /\ position_entry_time = <<>>
    /\ position_entry_candle_count = 0
    /\ position_side = <<>>
    /\ position_entry_price = <<>>
    /\ ptLast = NoTrackerCall
    /\ ptOpened = <<>>
    /\ ptCandles = 0
    /\ ptClosed = <<>>
    /\ exPosition = "flat"
    /\ placed = <<>>
    /\ exClosed = <<>>
    /\ rate_limit_backoff = BackoffStart
    /\ fetched = "init"

\* the process stops somewhere in a call, and some hours later a new one
\* constructs RiskManager() on the same state path
Crash ==
    /\ \E d \in RiskSteps :
          /\ now + d <= EndTime
          /\ now' = now + d
    /\ \E call \in {"ensure_day_initialized", "pause_for", "shutdown_for", "on_trade_closed"},
          pnl \in Pnls, h \in PauseHours \cup ShutdownHours :
          LET dur == IF call = "on_trade_closed" THEN pause_duration_sec ELSE h * HourSeconds
              saves == Saves(call, rmState, now, tz, pnl, pause_after_losses, dur)
              files == FilesDuring(rmFile, saves)
          IN \E i \in 1..Len(files) :
                /\ rmFile' = files[i]
                /\ rmState' = load(files[i])
                /\ rmLast' = [op |-> "crash", call |-> call, before |-> rmState,
                              after |-> IF saves = <<>> THEN rmState
                                        ELSE saves[Len(saves)]]
    /\ UNCHANGED <<tz, pause_after_losses, pause_duration_sec, closes, consulted>>
    /\ UNCHANGED notRisk

CrashNext ==
    \/ Tick
    \/ EnsureDayInitialized
    \/ PauseFor
    \/ ShutdownFor
    \/ OnTradeClosed
    \/ Crash

SpecCrash == CrashInit /\ [][CrashNext]_vars

\* C34: if the process stops at any point of an on_trade_closed, pause_for,
\* shutdown_for or ensure_day_initialized call and a new RiskManager is
\* constructed, the loaded state is the complete state before the call or the
\* complete state after it: never one with consecutive_losses >=
\* pause_after_losses saved without its paused_until, never one that has lost
\* an earlier pause or shutdown deadline.
C34_CrashAtomicity ==
    rmLast.op = "crash" =>
        /\ rmState \in {rmLast.before, rmLast.after}
        /\ Get(rmState, "paused_until", 0) >= Get(rmLast.before, "paused_until", 0)
              \/ rmLast.call = "pause_for"
        /\ Get(rmState, "shutdown_until", 0) >= Get(rmLast.before, "shutdown_until", 0)
              \/ rmLast.call = "shutdown_for"

\* C36: a pause that on_trade_closed triggers does not reset the loss streak:
\* after a close that triggered a pause consecutive_losses stays at or above
\* pause_after_losses through sleeps, other calls and restarts until a close
\* with pnl >= 0, and every losing close that follows it without such a close in
\* between (also one made after the pause has expired) triggers a pause again
\* and sets paused_until to the time of that call + pause_duration.
C36_StreakSurvivesPause ==
    /\ \A i \in 1..Len(closes) : \A k \in i..Len(closes) :
           (closes[i].trig /\ \A j \in (i + 1)..k : closes[j].pnl < 0)
           => /\ closes[k].trig
              /\ k > i => closes[k].before >= pause_after_losses
              /\ k = Len(closes) =>
                    Get(rmState, "consecutive_losses", 0) >= pause_after_losses
    /\ (/\ rmLast.op = "on_trade_closed"
        /\ rmLast.exc = "none"
        /\ rmLast.pnl < 0
        /\ Len(closes) >= 2
        /\ closes[Len(closes) - 1].trig)
       => /\ rmLast.trig
          /\ rmState["paused_until"] = now + pause_duration_sec

\* two losses with the threshold 2 trigger a pause of 12 h at the start; the
\* third loss comes when that pause has just expired and triggers the next
C36_Witness ==
    /\ pause_after_losses = 2
    /\ Len(closes) = 3
    /\ closes[2].trig /\ closes[2].day = UtcDay(StartTime)
    /\ now = StartTime + 12 * HourSeconds
    /\ rmLast.op = "on_trade_closed"
    /\ rmLast.pnl < 0
    /\ rmLast.trig
    /\ rmLast.losses = 3
    /\ rmState["paused_until"] = now + pause_duration_sec

-----------------------------------------------------------------------------
(* pause_for and shutdown_for called with durations of different lengths *)

\* the durations passed, in hours
DeadlineHours == {1, 12}

DeadlineInit ==
    /\ now = StartTime
    /\ tz = 0
    /\ pause_after_losses = 3
    /\ pause_duration_sec = 12 * HourSeconds
    /\ rmFile = NoFile
    /\ rmState = load(rmFile)
    /\ rmLast = NoCall("init")
    /\ closes = <<>>
    /\ consulted = -1
    \* the guard is constructed and never called
    /\ max_trades_per_hour = 2
    /\ cooldown_seconds = 10 * MinuteSeconds
    /\ last_trades = <<>>
    /\ last_close_time = <<>>
    /\ gLast = [op |-> "init", ret |-> FALSE]
    /\ opens = <<>>
    /\ closedAt = <<>>
    /\ advised = TRUE
    \* the planner is constructed and never called
    /\ teBuilt = "ready"
    /\ teCfg = DefaultExecution
    /\ teArgs = NoArguments
    /\ teResult = <<>>
    \* no stagnation check is made
    /\ tsLast = <<>>
    \* the loop does not reach its daily-loss check
    /\ settings = DefaultSettings
    /\ starting_equity = Zero
    /\ lossCheck = <<>>
    \* the tracker is constructed and never called
    /\ max_candles_5m = 10
    /\ position_entry_time = <<>>
    /\ position_entry_candle_count = 0
    /\ position_side = <<>>
    /\ position_entry_price = <<>>
    /\ ptLast = NoTrackerCall
    /\ ptOpened = <<>>
    /\ ptCandles = 0
    /\ ptClosed = <<>>
    /\ exPosition = "flat"
    /\ placed = <<>>
    /\ exClosed = <<>>
    /\ rate_limit_backoff = BackoffStart
    /\ fetched = "init"

\* pause_for(seconds); the record of the call keeps the argument
PauseForSeconds ==
    /\ \E h \in DeadlineHours :
          LET o == pause_for(rmState, rmFile, now, h * HourSeconds) IN
          /\ rmState' = o.st
          /\ rmFile' = o.fl
          /\ rmLast' = Call("pause_for", 0, o) @@ [seconds |-> h * HourSeconds]
    /\ UNCHANGED <<now, tz, pause_after_losses, pause_duration_sec, closes, consulted>>
    /\ UNCHANGED notRisk

\* shutdown_for(seconds); the record of the call keeps the argument
ShutdownForSeconds ==
    /\ \E h \in DeadlineHours :
          LET o == shutdown_for(rmState, rmFile, now, h * HourSeconds) IN
          /\ rmState' = o.st
          /\ rmFile' = o.fl
          /\ rmLast' = Call("shutdown_for", 0, o) @@ [seconds |-> h * HourSeconds]
    /\ UNCHANGED <<now, tz, pause_after_losses, pause_duration_sec, closes, consulted>>
    /\ UNCHANGED notRisk

DeadlineNext ==
    \/ Tick
    \/ OnTradeClosed
    \/ PauseForSeconds
    \/ ShutdownForSeconds

SpecDeadline == DeadlineInit /\ [][DeadlineNext]_vars

\* the fields of the dict other than key are what they were
OnlyChanged(key) ==
    /\ DOMAIN rmState' = DOMAIN rmState
    /\ \A k \in DOMAIN rmState \ {key} : rmState'[k] = rmState[k]

\* C37: pause_for(seconds) sets paused_until to the time of the call + seconds
\* and shutdown_for(seconds) sets shutdown_until to the time of the call +
\* seconds, whatever the deadline was before (a later one is overwritten), and
\* each leaves the other deadline, day_start_ts, day_pnl and consecutive_losses
\* as they were.
C37_Step ==
    /\ rmLast'.op = "pause_for" =>
          /\ rmState'["paused_until"] = now + rmLast'.seconds
          /\ OnlyChanged("paused_until")
    /\ rmLast'.op = "shutdown_for" =>
          /\ rmState'["shutdown_until"] = now + rmLast'.seconds
          /\ OnlyChanged("shutdown_until")

C37_Deadlines == [][C37_Step]_vars

\* a pause of 12 h set at the start is replaced 6 h later by one of 1 h, which
\* ends 5 h earlier, with a loss booked and a shutdown running
C37_Witness ==
    /\ rmLast.op = "pause_for"
    /\ rmLast.seconds = HourSeconds
    /\ now = StartTime + 6 * HourSeconds
    /\ rmState["paused_until"] = now + HourSeconds
    /\ rmFile = save(rmState)
    /\ rmState["shutdown_until"] = StartTime + 12 * HourSeconds
    /\ rmState["consecutive_losses"] = 1
    /\ rmState["day_pnl"] = -2

\* C38: a call that finds a new day (ensure_day_initialized, directly or through
\* get_day_pnl or on_trade_closed) changes day_start_ts and day_pnl for the
\* rollover and nothing else: consecutive_losses, paused_until and shutdown_until
\* are carried over, and a losing close that is the first call of the day adds
\* to the streak of the day before and pauses when that reaches the threshold.
C38_Step ==
    (rmLast'.op \in ConsultOps /\ rmLast'.exc = "none" /\ rmLast'.reset) =>
        /\ DOMAIN rmState' = DOMAIN rmState
        /\ rmState'["day_start_ts"] = midnight_utc_ts(now, tz)
        /\ rmState'["day_pnl"] = rmLast'.pnl
        /\ rmState'["shutdown_until"] = rmState["shutdown_until"]
        /\ IF rmLast'.op = "on_trade_closed"
           THEN /\ rmState'["consecutive_losses"] =
                      (IF rmLast'.pnl < 0 THEN rmState["consecutive_losses"] + 1 ELSE 0)
                /\ rmLast'.trig <=> (rmState'["consecutive_losses"] >= pause_after_losses)
                /\ ~rmLast'.trig => rmState'["paused_until"] = rmState["paused_until"]
           ELSE /\ rmState'["consecutive_losses"] = rmState["consecutive_losses"]
                /\ rmState'["paused_until"] = rmState["paused_until"]

C38_RolloverFrame == [][C38_Step]_vars

\* a loss and a shutdown_for on the first day, threshold 2; the first call of
\* the next day is a losing close: it resets the day, finds the streak at 1,
\* makes it 2 and pauses, and the shutdown deadline is still in the dict
C38_Witness ==
    /\ pause_after_losses = 2
    /\ UtcDay(now) = StartDay + 1
    /\ Len(closes) = 2
    /\ closes[1].day = StartDay /\ closes[1].pnl < 0
    /\ closes[2].before = 1
    /\ rmLast.op = "on_trade_closed"
    /\ rmLast.reset
    /\ rmLast.trig
    /\ rmState["consecutive_losses"] = 2
    /\ rmState["day_pnl"] = closes[2].pnl
    /\ rmState["shutdown_until"] = StartTime + 6 * HourSeconds

\* what a short plan is made of, for the plan returned
PlannedAsShort ==
    LET r == teResult[1] IN
    /\ r.stop_loss = calculate_stop_loss(teCfg, r.entry_price, "short", r.atr,
                                         teArgs.invalidation_level)
    /\ r.risk = FSub(r.stop_loss, r.entry_price)
    /\ r.target = FSub(r.entry_price, FMul(r.risk, teCfg.min_rr_ratio))

\* C39: every valid plan of calculate_entry_stop_target has stop_loss <
\* entry_price < target when direction is "long" and target < entry_price <
\* stop_loss otherwise, with reward = risk*min_rr_ratio; a direction other than
\* "long" (for example "flat") is planned as a short.
C39_PriceOrdering ==
    (teResult # <<>> /\ teResult[1].valid) =>
        LET r == teResult[1] IN
        /\ IF teArgs.direction = "long"
           THEN FLt(r.stop_loss, r.entry_price) /\ FLt(r.entry_price, r.target)
           ELSE FLt(r.target, r.entry_price) /\ FLt(r.entry_price, r.stop_loss)
        /\ r.reward = FMul(r.risk, teCfg.min_rr_ratio)
        /\ teArgs.direction # "long" => PlannedAsShort

====
